---- MODULE Spec2Model ----
(***************************************************************************)
(* A model of sqlutil: the schema reconciler and row operations of Table   *)
(* (lib/table.js), the expression compiler of BuildQuery (lib/sqlquery.js) *)
(* and the parts of the sqlite3 executor (lib/db.js) they drive.           *)
(*                                                                         *)
(* Conventions.  A JavaScript number is an integer count of tenths (30 is  *)
(* 3.0, 1 is 0.1).  A JavaScript string that the code inspects character   *)
(* by character is a sequence of one-character strings; SQL text that the  *)
(* code only concatenates is a TLA+ string.  A JavaScript object is a      *)
(* sequence (key order matters) or a set of <<key, value>> pairs.          *)
(***************************************************************************)
EXTENDS Integers, Sequences, FiniteSets, TLC

VARIABLES
  tables,         \* the database: table name -> table, or NoTable
  inTransaction,  \* the connection is inside an open transaction
  foreignKeysOn,  \* PRAGMA foreign_keys of the connection
  last,           \* the last Table call: its input, what it saw, its outcome
  rt,             \* default-value round trip: declaration, stored text, result
  up,             \* upsert: the rows of the table and the calls in flight
  cq,             \* expression compiler: the binder and the last compilation
  st              \* a SqlReadStream or a SqlWriteStream and its statement

vars == <<tables, inTransaction, foreignKeysOn, last, rt, up, cq, st>>

-----------------------------------------------------------------------------
(* Bounds of the model.                                                    *)

MaxRows == 2

-----------------------------------------------------------------------------
(* JavaScript values.                                                      *)

Null == [t |-> "null"]
Num(n) == [t |-> "num", v |-> n]
Str(s) == [t |-> "str", v |-> s]
NaN == [t |-> "nan"]

NoDefault == [t |-> "undefined"]

Quote == "\""

Digits == <<"0", "1", "2", "3", "4", "5", "6", "7", "8", "9">>

IsDigit(c) == \E d \in 1..10 : Digits[d] = c

DigitVal(c) == (CHOOSE d \in 1..10 : Digits[d] = c) - 1

RECURSIVE NatToText(_)
NatToText(n) ==
  IF n < 10 THEN <<Digits[n + 1]>>
  ELSE NatToText(n \div 10) \o <<Digits[(n % 10) + 1]>>

\* `${number}`: the shortest decimal text of the number.
NumToText(n) ==
  LET a == IF n < 0 THEN -n ELSE n
      sign == IF n < 0 THEN <<"-">> ELSE <<>>
      frac == IF a % 10 = 0 THEN <<>> ELSE <<".", Digits[(a % 10) + 1]>>
  IN sign \o NatToText(a \div 10) \o frac

RECURSIVE DigitsPrefix(_)
\* The longest prefix of text made of digits.
DigitsPrefix(text) ==
  IF text # <<>> /\ IsDigit(Head(text))
  THEN <<Head(text)>> \o DigitsPrefix(Tail(text))
  ELSE <<>>

RECURSIVE TextToNat(_, _)
TextToNat(ds, acc) ==
  IF ds = <<>> THEN acc ELSE TextToNat(Tail(ds), acc * 10 + DigitVal(Head(ds)))

\* Number.parseFloat: optional sign, digits, optional fraction; NaN when the
\* text starts with neither.  Texts with more than one fraction digit are
\* outside the number domain of the model.
HasSign(text) == text # <<>> /\ Head(text) = "-"

Unsigned(text) == IF HasSign(text) THEN Tail(text) ELSE text

\* The tenths that the text after the integer digits adds.
FractionTenths(rest) ==
  IF Len(rest) >= 2 /\ rest[1] = "." /\ IsDigit(rest[2]) THEN DigitVal(rest[2]) ELSE 0

ParseUnsigned(negative, int, rest) ==
  IF int = <<>> THEN NaN
  ELSE Num((IF negative THEN -1 ELSE 1) * (TextToNat(int, 0) * 10 + FractionTenths(rest)))

ParseDigits(negative, body, int) ==
  ParseUnsigned(negative, int, SubSeq(body, Len(int) + 1, Len(body)))

ParseFloat(text) == ParseDigits(HasSign(text), Unsigned(text), DigitsPrefix(Unsigned(text)))

-----------------------------------------------------------------------------
(* The executor (sqlite3), as far as the statements of Table need it.      *)

TableName == "testtable"

BackupTableName == "backup_testtable"

NoTable == [exists |-> FALSE]

\* A numeric literal of a DEFAULT clause.
IsFractionLiteral(rest) ==
  \/ rest = <<>>
  \/ Len(rest) >= 2 /\ rest[1] = "." /\ DigitsPrefix(Tail(rest)) = Tail(rest)

IsUnsignedLiteral(body, int) ==
  int # <<>> /\ IsFractionLiteral(SubSeq(body, Len(int) + 1, Len(body)))

IsNumberLiteral(text) == IsUnsignedLiteral(Unsigned(text), DigitsPrefix(Unsigned(text)))

RECURSIVE QuotedBodyEnds(_)
\* text follows an opening double quote: TRUE when the token it opens ends
\* exactly at the end of text (a doubled quote is an escaped quote).
QuotedBodyEnds(text) ==
  IF text = <<>> THEN FALSE
  ELSE IF Head(text) # Quote THEN QuotedBodyEnds(Tail(text))
  ELSE IF Len(text) = 1 THEN TRUE
  ELSE IF text[2] = Quote THEN QuotedBodyEnds(Tail(Tail(text)))
  ELSE FALSE

IsQuotedToken(text) == Len(text) >= 2 /\ text[1] = Quote /\ QuotedBodyEnds(Tail(text))

\* The text after DEFAULT is one token the engine's parser accepts.
EngineAcceptsDefault(text) == IsNumberLiteral(text) \/ IsQuotedToken(text)

RECURSIVE Unescape(_)
Unescape(body) ==
  IF body = <<>> THEN <<>>
  ELSE IF Head(body) = Quote /\ Len(body) >= 2 /\ body[2] = Quote
       THEN <<Quote>> \o Unescape(Tail(Tail(body)))
  ELSE <<Head(body)>> \o Unescape(Tail(body))

\* The engine's values: NULL, text, and numbers of storage class integer or
\* real.  A JavaScript number that is an int32 is bound as an integer, any
\* other as a real; a column of either class is read back as a number.
SqlInteger(n) == [t |-> "integer", v |-> n]

SqlReal(n) == [t |-> "real", v |-> n]

\* A number in the storage class of a literal: integer when it has no
\* fraction.
SqlNumber(n) == IF n % 10 = 0 THEN SqlInteger(n) ELSE SqlReal(n)

IsSqlNumber(value) == value.t \in {"integer", "real"}

Bind(value) == IF value.t = "num" THEN SqlNumber(value.v) ELSE value

ColumnValue(value) == IF IsSqlNumber(value) THEN Num(value.v) ELSE value

\* A number as the engine writes it when it converts it to text: a real
\* always has a fraction.
SqlNumberToText(value) ==
  IF value.t = "real" /\ value.v % 10 = 0
  THEN NumToText(value.v) \o <<".", "0">>
  ELSE NumToText(value.v)

SqlTextToNumber(text) == SqlNumber(ParseFloat(text).v)

\* Column affinity: what the engine stores when `value` is written to a
\* column declared with `type`.
NumericAffinity(type, value) ==
  IF ~IsSqlNumber(value) THEN value
  ELSE IF type \in {"REAL", "FLOAT"} THEN SqlReal(value.v)
  ELSE SqlNumber(value.v)

EngineAffinity(type, value) ==
  IF type = "TEXT"
  THEN IF IsSqlNumber(value) THEN Str(SqlNumberToText(value)) ELSE value
  ELSE IF type = "BLOB" THEN value
  ELSE NumericAffinity(type, IF value.t = "str" /\ IsNumberLiteral(value.v)
                             THEN SqlTextToNumber(value.v)
                             ELSE value)

\* The value of the literal after DEFAULT; dflt_value is Null or Str(the text
\* written after DEFAULT).
EngineDefaultValue(dflt_value) ==
  IF dflt_value = Null THEN Null
  ELSE IF IsQuotedToken(dflt_value.v)
       THEN Str(Unescape(SubSeq(dflt_value.v, 2, Len(dflt_value.v) - 1)))
  ELSE SqlTextToNumber(dflt_value.v)

-----------------------------------------------------------------------------
(* Table: rendering a declared schema (_createTableSql).                   *)

SeqToSet(s) == {s[i] : i \in 1..Len(s)}

ColumnNames(columns) == [i \in 1..Len(columns) |-> columns[i].name]

\* The text written after DEFAULT for a column, Null when no DEFAULT clause is
\* written.  (Default values are numbers or strings here; any other type makes
\* _createTableSql throw.)
RenderDefault(column) ==
  IF column.defaultValue.t = "num" THEN Str(NumToText(column.defaultValue.v))
  ELSE IF column.defaultValue.t = "str"
       THEN Str(<<Quote>> \o column.defaultValue.v \o <<Quote>>)
  ELSE Null

\* One column description of the CREATE TABLE statement: name, type and the
\* clauses written for it.  PRIMARY KEY suppresses NOT NULL.
ColumnDescription(column) ==
  [name |-> column.name,
   type |-> column.type,
   primaryKey |-> column.primaryKey,
   unique |-> column.unique /\ ~column.primaryKey,
   notNull |-> column.notNull /\ ~column.primaryKey,
   default |-> RenderDefault(column)]

ForeignKeyDescription(foreignKey) ==
  [from |-> foreignKey.from,
   table |-> foreignKey.references.table,
   to |-> foreignKey.references.field]

\* The CREATE TABLE statement of a schema, as the clauses it contains.
CreateTableSql(schema) ==
  [name |-> schema.name,
   columns |-> [i \in 1..Len(schema.columns) |-> ColumnDescription(schema.columns[i])],
   foreignKeys |-> [i \in 1..Len(schema.foreignKeys) |->
                      ForeignKeyDescription(schema.foreignKeys[i])]]

-----------------------------------------------------------------------------
(* Table: what _createTableSql checks while it renders, and what it writes *)
(* to the schema.  A schema may carry `indices`, an object given as its     *)
(* <<name, index>> pairs in key order; a column may carry `index` and       *)
(* `collate`; a foreign key whose `from` or referenced column is an array   *)
(* of one name carries fromIsArray or fieldIsArray next to the name; and    *)
(* a `references` object with a second key carries otherTable.              *)

HasOwn(object, key) == key \in DOMAIN object

\* let collate = column.collate ? ` COLLATE ${column.collate}` : ''
Collate(column) == IF HasOwn(column, "collate") THEN " COLLATE " \o column.collate ELSE ""

\* The default value is undefined, null, a number or a string.
DefaultValueIsValid(column) ==
  column.defaultValue.t \in {"undefined", "null", "num", "str"}

\* indices[name] = index
SetIndex(indices, name, index) ==
  IF \E i \in 1..Len(indices) : indices[i][1] = name
  THEN [i \in 1..Len(indices) |->
          IF indices[i][1] = name THEN <<name, index>> ELSE indices[i]]
  ELSE Append(indices, <<name, index>>)

RECURSIVE ColumnsLoop(_, _, _)
\* The loop over the columns from index i with `indices` as it stands: the
\* error it throws ("" when none) and the indices it leaves.
ColumnsLoop(columns, i, indices) ==
  IF i > Len(columns) THEN [error |-> "", indices |-> indices]
  ELSE IF ~DefaultValueIsValid(columns[i])
  THEN [error |-> "Invalid type for default value", indices |-> indices]
  ELSE ColumnsLoop(
         columns, i + 1,
         IF HasOwn(columns[i], "index") /\ columns[i].index
         THEN SetIndex(indices, columns[i].name,
                       [columns |-> <<columns[i].name \o Collate(columns[i])>>])
         ELSE indices)

\* Object.keys(foreignKey.references)
ReferencesTables(foreignKey) ==
  IF HasOwn(foreignKey.references, "otherTable")
  THEN <<foreignKey.references.table, foreignKey.references.otherTable>>
  ELSE <<foreignKey.references.table>>

ForeignKeysError(foreignKeys) ==
  IF \E i \in 1..Len(foreignKeys) : Len(ReferencesTables(foreignKeys[i])) # 1
  THEN "Invalid foreign key description"
  ELSE ""

\* The loop over the indices: every column of an index is a column of the
\* schema.
IndicesError(columns, indices) ==
  IF \E i \in 1..Len(indices) : \E j \in 1..Len(indices[i][2].columns) :
       indices[i][2].columns[j] \notin SeqToSet(ColumnNames(columns))
  THEN "Unknown field"
  ELSE ""

\* _createTableSql of a Table declared with schema: the error it throws (""
\* when none), the statement, and the schema as the call leaves it.  With
\* let indices = this.schema.indices || {} the loop writes to the object of
\* the schema itself when the schema has one.
_createTableSql(schema) ==
  LET looped == ColumnsLoop(schema.columns, 1,
                            IF HasOwn(schema, "indices") THEN schema.indices ELSE <<>>)
  IN [error |-> IF looped.error # "" THEN looped.error
                ELSE IF ForeignKeysError(schema.foreignKeys) # ""
                THEN ForeignKeysError(schema.foreignKeys)
                ELSE IndicesError(schema.columns, looped.indices),
      sql |-> CreateTableSql(schema),
      schema |-> IF HasOwn(schema, "indices")
                 THEN [schema EXCEPT !.indices = looped.indices]
                 ELSE schema]

-----------------------------------------------------------------------------
(* The executor: CREATE TABLE.                                             *)

\* The engine accepts the statement: every DEFAULT is a token it can parse and
\* every foreign key names a column of the table.
EngineAcceptsCreate(sql) ==
  /\ \A i \in 1..Len(sql.columns) :
       sql.columns[i].default # Null => EngineAcceptsDefault(sql.columns[i].default.v)
  /\ \A i \in 1..Len(sql.foreignKeys) :
       sql.foreignKeys[i].from \in SeqToSet(ColumnNames(sql.columns))

\* The table a CREATE TABLE statement creates: what PRAGMA table_info and
\* PRAGMA foreign_key_list report of it, and no rows.
EngineNewTable(sql) ==
  [exists |-> TRUE,
   columns |-> [i \in 1..Len(sql.columns) |->
                  [name |-> sql.columns[i].name,
                   type |-> sql.columns[i].type,
                   notnull |-> sql.columns[i].notNull,
                   dflt_value |-> sql.columns[i].default,
                   pk |-> sql.columns[i].primaryKey,
                   unique |-> sql.columns[i].unique]],
   foreignKeys |-> sql.foreignKeys,
   rows |-> <<>>]

-----------------------------------------------------------------------------
(* Table: introspection (getSchemaFromDatabase) and comparison             *)
(* (_schemaMatchesDatabase).                                               *)

\* switch (column.type): the engine's declared type to DataType.
IntrospectType(type) ==
  IF type \in {"INTEGER", "NUMERIC", "TEXT", "REAL"} THEN type ELSE "BLOB"

\* The default value parsed from the dflt_value text of PRAGMA table_info.
IntrospectDefault(dflt_value) ==
  IF dflt_value # Null /\ dflt_value.v # <<>>
  THEN IF dflt_value.v[1] = Quote /\ dflt_value.v[Len(dflt_value.v)] = Quote
       THEN Str(SubSeq(dflt_value.v, 2, Len(dflt_value.v) - 1))
       ELSE ParseFloat(dflt_value.v)
  ELSE dflt_value

GetSchemaFromDatabase(table) ==
  [name |-> TableName,
   columns |-> [i \in 1..Len(table.columns) |->
                  [name |-> table.columns[i].name,
                   type |-> IntrospectType(table.columns[i].type),
                   notNull |-> table.columns[i].notnull,
                   primaryKey |-> FALSE,
                   defaultValue |-> IntrospectDefault(table.columns[i].dflt_value)]],
   foreignKeys |-> [i \in 1..Len(table.foreignKeys) |->
                      [from |-> table.foreignKeys[i].from,
                       references |-> [table |-> table.foreignKeys[i].table,
                                       field |-> table.foreignKeys[i].to]]]]

columnIsNotNull_declaredFlag(column) == column.notNull

columnIsNotNull(column) == column.notNull /\ ~column.primaryKey

columnDefaultValue(column) ==
  IF column.defaultValue.t = "str"
  THEN Str(<<Quote>> \o column.defaultValue.v \o <<Quote>>)
  ELSE IF column.defaultValue.t # "undefined" THEN column.defaultValue
  ELSE Null

\* JavaScript ===, on the values of the model.
StrictEquals(a, b) == a = b /\ a # NaN

\* _.intersection(a, b): the elements of a that are in b, in a's order.
Intersection(a, b) == SelectSeq(a, LAMBDA x : x \in SeqToSet(b))

ColumnNamed(columns, name) ==
  columns[CHOOSE i \in 1..Len(columns) : columns[i].name = name]

ColumnsMatch(thisColumn, oldColumn) ==
  /\ thisColumn.type = oldColumn.type
  /\ columnIsNotNull(thisColumn) = columnIsNotNull(oldColumn)
  /\ StrictEquals(columnDefaultValue(thisColumn), columnDefaultValue(oldColumn))

\* foreignKey.from === from, from a string: an array is never === a string.
FromEquals(foreignKey, from) ==
  ~HasOwn(foreignKey, "fromIsArray") /\ foreignKey.from = from

\* oldReferences.field === newReferences.field, the old one a string.
FieldEquals(oldReferences, newReferences) ==
  ~HasOwn(newReferences, "fieldIsArray") /\ oldReferences.field = newReferences.field

\* _.find(foreignKeys, fk => fk.from === from): the index of the first, 0 when
\* there is none (undefined).
FindForeignKey(foreignKeys, from) ==
  IF \E i \in 1..Len(foreignKeys) : FromEquals(foreignKeys[i], from)
  THEN CHOOSE i \in 1..Len(foreignKeys) :
         /\ FromEquals(foreignKeys[i], from)
         /\ \A j \in 1..(i - 1) : ~FromEquals(foreignKeys[j], from)
  ELSE 0

RECURSIVE ForeignKeysLoop(_, _, _, _)
\* The loop over the old foreign keys, from index i with schemasAreEqual as it
\* stands: "match", "differ", or "TypeError" when the references of a foreign
\* key that _.find did not find are read.
ForeignKeysLoop(i, schemasAreEqual, oldForeignKeys, foreignKeys) ==
  IF i > Len(oldForeignKeys)
  THEN (IF schemasAreEqual THEN "match" ELSE "differ")
  ELSE LET n == FindForeignKey(foreignKeys, oldForeignKeys[i].from)
       IN IF ~schemasAreEqual
          THEN ForeignKeysLoop(i + 1, FALSE, oldForeignKeys, foreignKeys)
          ELSE IF n = 0 THEN "TypeError"
          ELSE ForeignKeysLoop(
                 i + 1,
                 /\ oldForeignKeys[i].references.table = foreignKeys[n].references.table
                 /\ FieldEquals(oldForeignKeys[i].references, foreignKeys[n].references),
                 oldForeignKeys, foreignKeys)

\* _schemaMatchesDatabase(oldSchema) of a Table declared with schema.
SchemaMatchesDatabase(schema, oldSchema) ==
  LET thisNames == ColumnNames(schema.columns)
      oldNames == ColumnNames(oldSchema.columns)
      columnsInBoth == Intersection(thisNames, oldNames)
      sameColumns == /\ Len(columnsInBoth) = Len(oldNames)
                     /\ Len(columnsInBoth) = Len(thisNames)
      columnsEqual ==
        /\ sameColumns
        /\ \A i \in 1..Len(columnsInBoth) :
             ColumnsMatch(ColumnNamed(schema.columns, columnsInBoth[i]),
                          ColumnNamed(oldSchema.columns, columnsInBoth[i]))
  IN IF ~columnsEqual THEN "differ"
     ELSE ForeignKeysLoop(1, Len(oldSchema.foreignKeys) = Len(schema.foreignKeys),
                          oldSchema.foreignKeys, schema.foreignKeys)

-----------------------------------------------------------------------------
(* The executor: rows.                                                     *)

\* A row is a function from the column names of its table to values.  An
\* INTEGER PRIMARY KEY column that a statement does not name gets the next
\* row id: one more than the largest in the table (ids are whole numbers).
NextRowId(rows, name) ==
  LET ids == {rows[i][name].v : i \in 1..Len(rows)}
  IN IF ids = {} THEN 10 ELSE (CHOOSE m \in ids : \A x \in ids : x <= m) + 10

\* The row the engine builds for a statement that gives `given` (a function
\* from the named columns to values) to a table with `rows` already in it.
EngineNewRow(table, rows, given) ==
  [name \in SeqToSet(ColumnNames(table.columns)) |->
     LET column == ColumnNamed(table.columns, name)
     IN IF name \in DOMAIN given /\ ~(column.pk /\ given[name] = Null)
        THEN EngineAffinity(column.type, given[name])
        ELSE IF column.pk /\ column.type = "INTEGER"
        THEN SqlInteger(NextRowId(rows, name))
        ELSE EngineAffinity(column.type, EngineDefaultValue(column.dflt_value))]

\* The constraint `row` violates beside the other rows `rows`: NOT NULL, or
\* the uniqueness of a primary key or UNIQUE column (NULLs are distinct);
\* "" when it violates none.
EngineRowError(table, rows, row) ==
  IF \E i \in 1..Len(table.columns) :
       table.columns[i].notnull /\ row[table.columns[i].name] = Null
  THEN "NOT NULL constraint failed"
  ELSE IF \E i \in 1..Len(table.columns) :
            /\ table.columns[i].pk \/ table.columns[i].unique
            /\ row[table.columns[i].name] # Null
            /\ \E j \in 1..Len(rows) :
                 rows[j][table.columns[i].name] = row[table.columns[i].name]
  THEN "UNIQUE constraint failed"
  ELSE ""

EngineAcceptsRow(table, rows, row) == EngineRowError(table, rows, row) = ""

Restrict(f, names) == [name \in names |-> f[name]]

RECURSIVE EngineCopyRows(_, _, _, _)
RECURSIVE EngineCopyRow(_, _, _, _, _)
\* The copy of row i, which the engine has built as `row`, and of the rows
\* after it.
EngineCopyRow(table, source, names, i, row) ==
  IF ~EngineAcceptsRow(table, table.rows, row)
  THEN [ok |-> FALSE, rows |-> <<>>]
  ELSE EngineCopyRows([table EXCEPT !.rows = Append(@, row)], source, names, i + 1)

\* INSERT INTO table (names) SELECT names FROM source, row by row from row i
\* on: the rows of the table afterwards, or "failed" at the first row the
\* table's constraints reject.
EngineCopyRows(table, source, names, i) ==
  IF i > Len(source) THEN [ok |-> TRUE, rows |-> table.rows]
  ELSE EngineCopyRow(table, source, names, i,
                     EngineNewRow(table, table.rows, Restrict(source[i], names)))

-----------------------------------------------------------------------------
(* Db.exec of the migration script: sqlite3_exec runs the statements one   *)
(* after the other and stops at the first that fails; what the earlier ones *)
(* did stays, inside the transaction that BEGIN opened.                     *)

MigrationScript ==
  <<"BEGIN TRANSACTION", "ALTER TABLE RENAME", "CREATE TABLE", "INSERT SELECT",
    "DROP TABLE", "COMMIT">>

\* What one statement gives: the database afterwards, or ok = FALSE when
\* the engine rejects the statement (the database is then unchanged).
StatementFailed(db) ==
  [ok |-> FALSE, tables |-> db.tables, inTransaction |-> db.inTransaction]

StatementDone(tbls, txn) == [ok |-> TRUE, tables |-> tbls, inTransaction |-> txn]

ExecCreateTable(db, sql) ==
  IF db.tables[TableName].exists \/ ~EngineAcceptsCreate(sql) THEN StatementFailed(db)
  ELSE StatementDone([db.tables EXCEPT ![TableName] = EngineNewTable(sql)],
                     db.inTransaction)

ExecCopied(db, copy) ==
  IF ~copy.ok THEN StatementFailed(db)
  ELSE StatementDone([db.tables EXCEPT ![TableName].rows = copy.rows], db.inTransaction)

ExecInsertSelect(db, fieldsInBoth) ==
  IF \/ fieldsInBoth = <<>>
     \/ ~db.tables[TableName].exists \/ ~db.tables[BackupTableName].exists
     \/ ~(SeqToSet(fieldsInBoth) \subseteq
            SeqToSet(ColumnNames(db.tables[TableName].columns))
            \cap SeqToSet(ColumnNames(db.tables[BackupTableName].columns)))
  THEN StatementFailed(db)
  ELSE ExecCopied(db, EngineCopyRows(db.tables[TableName],
                                     db.tables[BackupTableName].rows,
                                     SeqToSet(fieldsInBoth), 1))

\* One statement of the script on the database db.
ExecStatement(db, statement, schema, fieldsInBoth) ==
  IF statement = "BEGIN TRANSACTION" THEN
    IF db.inTransaction THEN StatementFailed(db) ELSE StatementDone(db.tables, TRUE)
  ELSE IF statement = "ALTER TABLE RENAME" THEN
    IF ~db.tables[TableName].exists \/ db.tables[BackupTableName].exists
    THEN StatementFailed(db)
    ELSE StatementDone([db.tables EXCEPT ![BackupTableName] = db.tables[TableName],
                                         ![TableName] = NoTable],
                       db.inTransaction)
  ELSE IF statement = "CREATE TABLE" THEN ExecCreateTable(db, CreateTableSql(schema))
  ELSE IF statement = "INSERT SELECT" THEN ExecInsertSelect(db, fieldsInBoth)
  ELSE IF statement = "DROP TABLE" THEN
    IF ~db.tables[BackupTableName].exists THEN StatementFailed(db)
    ELSE StatementDone([db.tables EXCEPT ![BackupTableName] = NoTable], db.inTransaction)
  ELSE \* COMMIT
    IF ~db.inTransaction THEN StatementFailed(db) ELSE StatementDone(db.tables, FALSE)

RECURSIVE Exec(_, _, _, _, _)
RECURSIVE ExecAfter(_, _, _, _, _, _)
\* Statement n of the script has given r: the script stops, or goes on with
\* the database that r holds.
ExecAfter(db, script, schema, fieldsInBoth, n, r) ==
  IF ~r.ok
  THEN [ok |-> FALSE, ran |-> n, tables |-> db.tables, inTransaction |-> db.inTransaction]
  ELSE Exec([db EXCEPT !.tables = r.tables, !.inTransaction = r.inTransaction],
            script, schema, fieldsInBoth, n + 1)

\* Db.exec of a script from statement n on: the database when the script
\* ended or stopped, and the number of statements the engine was given.
Exec(db, script, schema, fieldsInBoth, n) ==
  IF n > Len(script)
  THEN [ok |-> TRUE, ran |-> Len(script), tables |-> db.tables,
        inTransaction |-> db.inTransaction]
  ELSE ExecAfter(db, script, schema, fieldsInBoth, n,
                 ExecStatement(db, script[n], schema, fieldsInBoth))

-----------------------------------------------------------------------------
(* Table: createTable, createTableIfNotExists, createOrUpdateTable.        *)

Resolved(value, statements, tbls, txn) ==
  [status |-> "resolved", value |-> value, error |-> "", statements |-> statements,
   tables |-> tbls, inTransaction |-> txn]

Rejected(error, statements, tbls, txn) ==
  [status |-> "rejected", value |-> {}, error |-> error, statements |-> statements,
   tables |-> tbls, inTransaction |-> txn]

TableExists_never(db) == FALSE

\* tableExists: PRAGMA TABLE_INFO returns a first column.
TableExists(db) == db.tables[TableName].exists /\ Len(db.tables[TableName].columns) > 0

\* createTable, after `statements` have been sent: resolves to `value`.
RunCreateTable(db, sql, statements, value) ==
  IF db.tables[TableName].exists \/ ~EngineAcceptsCreate(sql)
  THEN Rejected("SqlError", Append(statements, "CREATE TABLE"), db.tables,
                db.inTransaction)
  ELSE Resolved(value, Append(statements, "CREATE TABLE"),
                [db.tables EXCEPT ![TableName] = EngineNewTable(sql)],
                db.inTransaction)

CreateTableThen_runsFirst(db, schema, statements, value) ==
  IF _createTableSql(schema).error # ""
  THEN Rejected(_createTableSql(schema).error, Append(statements, "CREATE TABLE"),
                db.tables, db.inTransaction)
  ELSE RunCreateTable(db, _createTableSql(schema).sql, statements, value)

\* createTable after `statements`: the statement is rendered, which may
\* throw, and then run.
CreateTableThen(db, schema, statements, value) ==
  IF _createTableSql(schema).error # ""
  THEN Rejected(_createTableSql(schema).error, statements, db.tables, db.inTransaction)
  ELSE RunCreateTable(db, _createTableSql(schema).sql, statements, value)

createTable(db, schema) == CreateTableThen(db, schema, <<>>, {})

\* The statements of tableExists and getSchemaFromDatabase.
IntrospectionStatements ==
  <<"PRAGMA table_info", "PRAGMA table_info", "PRAGMA foreign_key_list">>

\* createTableIfNotExists on a table that exists, its schema compared.
IfExists(db, match) ==
  IF match = "TypeError"
  THEN Rejected("TypeError", IntrospectionStatements, db.tables, db.inTransaction)
  ELSE IF match = "differ"
  THEN Rejected("SchemaMismatch", IntrospectionStatements, db.tables, db.inTransaction)
  ELSE Resolved({<<"wasCreated", FALSE>>}, IntrospectionStatements, db.tables,
                db.inTransaction)

createTableIfNotExists(db, schema) ==
  IF TableExists(db)
  THEN IfExists(db, SchemaMatchesDatabase(
                      schema, GetSchemaFromDatabase(db.tables[TableName])))
  ELSE CreateTableThen(db, schema, <<"PRAGMA table_info">>, {<<"wasCreated", TRUE>>})

FieldsInBoth_firstOnly(oldSchema, schema) ==
  Intersection(SubSeq(ColumnNames(oldSchema.columns), 1, 1),
               ColumnNames(schema.columns))

\* The column names of both schemas, in the order of the old one.
FieldsInBoth(oldSchema, schema) ==
  Intersection(ColumnNames(oldSchema.columns), ColumnNames(schema.columns))

\* The statements of createOrUpdateTable up to the comparison.
ReconcileStatements ==
  <<"PRAGMA table_info", "PRAGMA foreign_keys", "PRAGMA table_info",
    "PRAGMA foreign_key_list">>

\* The migration script was given to Db.exec, which returned exec.
MigrationResult(exec) ==
  IF exec.ok
  THEN Resolved({<<"wasCreated", FALSE>>, <<"wasUpdated", TRUE>>},
                ReconcileStatements \o SubSeq(MigrationScript, 1, exec.ran),
                exec.tables, exec.inTransaction)
  ELSE Rejected("SqlError", ReconcileStatements \o SubSeq(MigrationScript, 1, exec.ran),
                exec.tables, exec.inTransaction)

\* createOrUpdateTable on a table that exists, its schema read as oldSchema
\* and compared.
Update(db, schema, oldSchema, match) ==
  IF match = "TypeError"
  THEN Rejected("TypeError", ReconcileStatements, db.tables, db.inTransaction)
  ELSE IF match = "match"
  THEN Resolved({<<"wasCreated", FALSE>>, <<"wasUpdated", FALSE>>},
                ReconcileStatements, db.tables, db.inTransaction)
  ELSE IF _createTableSql(schema).error # ""
  THEN Rejected(_createTableSql(schema).error, ReconcileStatements, db.tables,
                db.inTransaction)
  ELSE MigrationResult(Exec(db, MigrationScript, schema, FieldsInBoth(oldSchema, schema), 1))

UpdateFrom(db, schema, oldSchema) ==
  Update(db, schema, oldSchema, SchemaMatchesDatabase(schema, oldSchema))

\* createOrUpdateTable once foreign keys are known to be disabled.
Reconcile(db, schema) ==
  IF TableExists(db)
  THEN UpdateFrom(db, schema, GetSchemaFromDatabase(db.tables[TableName]))
  ELSE CreateTableThen(db, schema, <<"PRAGMA table_info", "PRAGMA foreign_keys">>,
                       {<<"wasCreated", TRUE>>})

createOrUpdateTable_withoutForeignKeysCheck(db, schema) == Reconcile(db, schema)

createOrUpdateTable(db, schema) ==
  IF db.foreignKeysOn
  THEN Rejected("ForeignKeysMustBeDisabled",
                <<"PRAGMA table_info", "PRAGMA foreign_keys">>,
                db.tables, db.inTransaction)
  ELSE Reconcile(db, schema)

\* this.lastID of an INSERT: the row id, which an INTEGER PRIMARY KEY column
\* holds.
LastInsertRowId(table, new) ==
  LET keys == {i \in 1..Len(table.columns) :
                 table.columns[i].pk /\ table.columns[i].type = "INTEGER"}
  IN IF keys = {} THEN Num(10 * (Len(table.rows) + 1))
     ELSE ColumnValue(new[table.columns[CHOOSE i \in keys : TRUE].name])

\* The INSERT of the row the engine has built as `new`.
RunInsert(db, table, new, error) ==
  IF error # ""
  THEN Rejected(error, <<"INSERT">>, db.tables, db.inTransaction)
  ELSE Resolved({<<"lastID", LastInsertRowId(table, new)>>}, <<"INSERT">>,
                [db.tables EXCEPT ![TableName].rows = Append(table.rows, new)],
                db.inTransaction)

InsertNew(db, table, new) ==
  RunInsert(db, table, new, EngineRowError(table, table.rows, new))

InsertInto(db, table, row) ==
  IF ~table.exists \/ ~(DOMAIN row \subseteq SeqToSet(ColumnNames(table.columns)))
  THEN Rejected("SqlError", <<"INSERT">>, db.tables, db.inTransaction)
  ELSE InsertNew(db, table,
                 EngineNewRow(table, table.rows, [name \in DOMAIN row |-> Bind(row[name])]))

\* Table.insert of a row (a function from the columns it names to values).
insert(db, row) == InsertInto(db, db.tables[TableName], row)


-----------------------------------------------------------------------------
(* The declared schemas of the model: testtable with an optional id, value *)
(* and value2 column and at most one foreign key.                           *)

IdColumn ==
  [name |-> "id", type |-> "INTEGER", unique |-> FALSE, primaryKey |-> TRUE, notNull |-> FALSE,
   defaultValue |-> NoDefault]

ValueColumn(type) ==
  [name |-> "value", type |-> type, unique |-> FALSE, primaryKey |-> FALSE, notNull |-> FALSE,
   defaultValue |-> NoDefault]

Value2Column(notNull, defaultValue) ==
  [name |-> "value2", type |-> "REAL", unique |-> FALSE, primaryKey |-> FALSE, notNull |-> notNull,
   defaultValue |-> defaultValue]

ForeignKey(from, table) == [from |-> from, references |-> [table |-> table, field |-> "id"]]

Value2Options ==
  {<<Value2Column(FALSE, NoDefault)>>, <<Value2Column(TRUE, NoDefault)>>,
   <<Value2Column(FALSE, Num(30))>>}

ForeignKeyOptions ==
  {<<ForeignKey("value", "parent")>>, <<ForeignKey("value2", "parent")>>,
   <<ForeignKey("value", "other")>>}

Schema(columns, foreignKeys) ==
  [name |-> TableName, columns |-> columns, foreignKeys |-> foreignKeys]

\* The table of id alone; of id and value, of either type; of id, value and
\* each value2 column; the latter with each foreign key; and a table that has
\* no column in common with the first three.
Schemas ==
  {Schema(<<IdColumn>>, <<>>),
   Schema(<<IdColumn, ValueColumn("REAL")>>, <<>>),
   Schema(<<IdColumn, ValueColumn("TEXT")>>, <<>>),
   Schema(<<Value2Column(FALSE, NoDefault)>>, <<>>)}
  \cup {Schema(<<IdColumn, ValueColumn("REAL")>> \o w, <<>>) : w \in Value2Options}
  \cup {Schema(<<IdColumn, ValueColumn("REAL"), Value2Column(FALSE, NoDefault)>>, f) :
          f \in ForeignKeyOptions}

InsertValue == Num(420)

\* The rows a caller inserts: the first one or more of the columns that are
\* not the primary key, each with InsertValue; a column left out gets its
\* default.
InsertRows(table) ==
  LET names == SelectSeq(ColumnNames(table.columns),
                         LAMBDA name : ~ColumnNamed(table.columns, name).pk)
  IN {[name \in SeqToSet(SubSeq(names, 1, n)) |-> InsertValue] : n \in 1..Len(names)}

-----------------------------------------------------------------------------
(* Spec: one connection and the Table calls made on it, each awaited.      *)

Db == [tables |-> tables, inTransaction |-> inTransaction, foreignKeysOn |-> foreignKeysOn]

NoCall == [op |-> "none"]

Idle == [pc |-> "idle"]

\* The errors _createTableSql throws.
SyntaxErrors ==
  {"Invalid type for default value", "Invalid foreign key description", "Unknown field"}

\* The call rendered the CREATE TABLE statement: _createTableSql threw, or
\* the statement was run, or the migration script it is part of was given to
\* Db.exec.
Rendered(result) ==
  \/ result.error \in SyntaxErrors
  \/ SeqToSet(result.statements) \cap {"CREATE TABLE", "BEGIN TRANSACTION"} # {}

Called(op, schema, computed) ==
  \E result \in {computed} :
  /\ tables' = result.tables
  /\ inTransaction' = result.inTransaction
  /\ last' = [op |-> op, schema |-> schema, before |-> Db,
              status |-> result.status, value |-> result.value,
              error |-> result.error, statements |-> result.statements,
              schemaAfter |-> IF Rendered(result) THEN _createTableSql(schema).schema
                              ELSE schema]
  /\ UNCHANGED <<foreignKeysOn, rt, up, cq, st>>

CreateTable(schema) == Called("createTable", schema, createTable(Db, schema))

CreateTableIfNotExists(schema) ==
  Called("createTableIfNotExists", schema, createTableIfNotExists(Db, schema))

CreateOrUpdateTable(schema) ==
  Called("createOrUpdateTable", schema, createOrUpdateTable(Db, schema))

Insert(row) ==
  /\ Len(tables[TableName].rows) < MaxRows
  /\ tables' = insert(Db, row).tables
  /\ last' = NoCall
  /\ UNCHANGED <<inTransaction, foreignKeysOn, rt, up, cq, st>>

\* Db.enableForeignKeys: PRAGMA foreign_keys, which the engine ignores inside
\* a transaction.
EnableForeignKeys(enable) ==
  /\ foreignKeysOn' = IF inTransaction THEN foreignKeysOn ELSE enable
  /\ last' = NoCall
  /\ UNCHANGED <<tables, inTransaction, rt, up, cq, st>>

Init ==
  /\ tables = [name \in {TableName, BackupTableName} |-> NoTable]
  /\ inTransaction = FALSE
  /\ foreignKeysOn = FALSE
  /\ last = NoCall
  /\ st = Idle
  /\ rt = Idle
  /\ up = Idle
  /\ cq = Idle

Next ==
  \/ \E schema \in Schemas : CreateTable(schema)
  \/ \E schema \in Schemas : CreateTableIfNotExists(schema)
  \/ \E schema \in Schemas : CreateOrUpdateTable(schema)
  \/ \E row \in (IF tables[TableName].exists THEN InsertRows(tables[TableName]) ELSE {}) :
       Insert(row)
  \/ \E enable \in BOOLEAN : EnableForeignKeys(enable)

Spec == Init /\ [][Next]_vars


-----------------------------------------------------------------------------
(* The vocabulary of the claims about schema reconciliation.               *)

TableBefore == last.before.tables[TableName]

TableAfter == tables[TableName]

DeclaredDefault(column) ==
  IF column.defaultValue = NoDefault THEN Null ELSE column.defaultValue

\* The table is the one the declared schema describes: the same column names;
\* per column the same type, the same effective not-null and the same default;
\* and the same foreign keys.
EqualToDeclared(table, schema) ==
  /\ SeqToSet(ColumnNames(table.columns)) = SeqToSet(ColumnNames(schema.columns))
  /\ \A i \in 1..Len(schema.columns) :
       LET declared == schema.columns[i]
           stored == ColumnNamed(table.columns, declared.name)
       IN /\ stored.type = declared.type
          /\ (stored.notnull \/ stored.pk) = (declared.notNull \/ declared.primaryKey)
          /\ ColumnValue(EngineDefaultValue(stored.dflt_value)) = DeclaredDefault(declared)
  /\ {<<f.from, f.table, f.to>> : f \in SeqToSet(table.foreignKeys)}
       = {<<f.from, f.references.table, f.references.field>> :
            f \in SeqToSet(schema.foreignKeys)}

Absent == ~TableBefore.exists

PresentEqual == TableBefore.exists /\ EqualToDeclared(TableBefore, last.schema)

PresentDivergent == TableBefore.exists /\ ~EqualToDeclared(TableBefore, last.schema)

DatabaseUnchanged ==
  /\ tables = last.before.tables
  /\ inTransaction = last.before.inTransaction

ChangingStatements ==
  {"CREATE TABLE", "ALTER TABLE RENAME", "INSERT SELECT", "DROP TABLE", "INSERT"}

IssuedNoChange == SeqToSet(last.statements) \cap ChangingStatements = {}

ResolvedWith(value) == last.status = "resolved" /\ last.value = value

RejectedWith(error) == last.status = "rejected" /\ last.error = error

-----------------------------------------------------------------------------
(* C1: createTableIfNotExists has exactly three outcomes by table state:   *)
(* Absent -> the table is created and the call resolves {wasCreated: true}; *)
(* Present and equal -> nothing changes and it resolves {wasCreated: false};*)
(* Present and divergent -> it fails with SchemaMismatch and the existing   *)
(* table is left unchanged.                                                 *)
C1_CreateIfNotExistsThreeOutcomes ==
  last.op = "createTableIfNotExists" =>
    IF Absent
    THEN /\ ResolvedWith({<<"wasCreated", TRUE>>})
         /\ TableAfter.exists /\ EqualToDeclared(TableAfter, last.schema)
    ELSE IF PresentEqual
    THEN ResolvedWith({<<"wasCreated", FALSE>>}) /\ DatabaseUnchanged
    ELSE RejectedWith("SchemaMismatch") /\ DatabaseUnchanged

-----------------------------------------------------------------------------
(* C2: createOrUpdateTable with foreign keys disabled has exactly three    *)
(* outcomes: Absent -> created, {wasCreated: true}; Present and equal -> no *)
(* statement that changes the database, {wasCreated: false, wasUpdated:     *)
(* false}; Present and divergent -> the table is migrated and the call      *)
(* resolves {wasCreated: false, wasUpdated: true}.                          *)
C2_CreateOrUpdateThreeOutcomes ==
  (last.op = "createOrUpdateTable" /\ ~last.before.foreignKeysOn) =>
    IF Absent
    THEN /\ ResolvedWith({<<"wasCreated", TRUE>>})
         /\ TableAfter.exists /\ EqualToDeclared(TableAfter, last.schema)
    ELSE IF PresentEqual
    THEN /\ ResolvedWith({<<"wasCreated", FALSE>>, <<"wasUpdated", FALSE>>})
         /\ IssuedNoChange /\ DatabaseUnchanged
    ELSE /\ ResolvedWith({<<"wasCreated", FALSE>>, <<"wasUpdated", TRUE>>})
         /\ TableAfter.exists /\ EqualToDeclared(TableAfter, last.schema)

-----------------------------------------------------------------------------
(* C3: whenever foreign-key enforcement is active on the connection,       *)
(* createOrUpdateTable fails with ForeignKeysMustBeDisabled in every table  *)
(* state and issues no statement that creates, renames, copies into or      *)
(* drops a table.                                                           *)
C3_ForeignKeysMustBeDisabled ==
  (last.op = "createOrUpdateTable" /\ last.before.foreignKeysOn) =>
    /\ RejectedWith("ForeignKeysMustBeDisabled")
    /\ IssuedNoChange
    /\ DatabaseUnchanged

\* The call was made with foreign keys enabled on a table that diverges from
\* the declaration and holds rows.
C3_Witness ==
  /\ last.op = "createOrUpdateTable"
  /\ last.before.foreignKeysOn
  /\ PresentDivergent
  /\ Len(TableBefore.rows) > 0
  /\ last.status = "rejected"

-----------------------------------------------------------------------------
(* C4: createTableIfNotExists is idempotent on a matching table: called    *)
(* any number of times in a row on a table that already matches the         *)
(* declared schema, every call resolves {wasCreated: false} and the stored  *)
(* rows are the same after each call as before the first.  A call on a      *)
(* matching table resolves {wasCreated: false} and leaves the database as   *)
(* it was (so the table still matches for the next call), and a call that   *)
(* follows a resolved call with the same schema does the same.              *)
C4_OnMatchingTable ==
  (last.op = "createTableIfNotExists" /\ PresentEqual) =>
    ResolvedWith({<<"wasCreated", FALSE>>}) /\ DatabaseUnchanged

C4_CalledAgain ==
  (/\ last.op = "createTableIfNotExists"
   /\ last.status = "resolved"
   /\ last'.op = "createTableIfNotExists"
   /\ last'.schema = last.schema)
  => /\ last'.status = "resolved"
     /\ last'.value = {<<"wasCreated", FALSE>>}
     /\ tables' = tables

C4_Idempotent == []C4_OnMatchingTable /\ [][C4_CalledAgain]_vars

\* The call was made on a matching table that holds rows.
C4_Witness ==
  /\ last.op = "createTableIfNotExists"
  /\ PresentEqual
  /\ Len(TableBefore.rows) = MaxRows
  /\ last.value = {<<"wasCreated", FALSE>>}

-----------------------------------------------------------------------------
(* C5: when createOrUpdateTable migrates a divergent table, the table      *)
(* afterwards holds exactly one row per row it held before; each row keeps  *)
(* its previous value in every column that is in both the old and the new   *)
(* schema, has the declared default in every added column, and has no key   *)
(* for a removed column; and no backup table remains.                       *)
Migrated ==
  /\ last.op = "createOrUpdateTable"
  /\ last.status = "resolved"
  /\ last.value = {<<"wasCreated", FALSE>>, <<"wasUpdated", TRUE>>}

OldNames == SeqToSet(ColumnNames(TableBefore.columns))

NewNames == SeqToSet(ColumnNames(last.schema.columns))

DeclaredColumn(name) == ColumnNamed(last.schema.columns, name)

\* What a caller reads in column `name` of row i.
ValueBefore(i, name) == ColumnValue(TableBefore.rows[i][name])

ValueAfter(i, name) == ColumnValue(TableAfter.rows[i][name])

\* Row i of the table after the migration is row i of the table before it,
\* in the columns of the new schema; `kept` says what a column of both
\* schemas holds and `added` what an added column holds.
RowMigrated(i, kept(_, _), added(_, _)) ==
  /\ DOMAIN TableAfter.rows[i] = NewNames
  /\ \A name \in NewNames :
       IF name \in OldNames THEN kept(i, name) ELSE added(i, name)

RowsMigrated(kept(_, _), added(_, _)) ==
  /\ Len(TableAfter.rows) = Len(TableBefore.rows)
  /\ \A i \in 1..Len(TableAfter.rows) : RowMigrated(i, kept, added)
  /\ ~tables[BackupTableName].exists

KeepsValue(i, name) == ValueAfter(i, name) = ValueBefore(i, name)

HoldsDeclaredDefault(i, name) ==
  ValueAfter(i, name) = DeclaredDefault(DeclaredColumn(name))

TypeChanged(name) ==
  ColumnNamed(TableBefore.columns, name).type # DeclaredColumn(name).type

KeepsValueOrConverts(i, name) ==
  IF TypeChanged(name)
  THEN ValueAfter(i, name)
         = ColumnValue(EngineAffinity(DeclaredColumn(name).type, TableBefore.rows[i][name]))
  ELSE KeepsValue(i, name)

HoldsDefaultOrRowId(i, name) ==
  IF DeclaredColumn(name).primaryKey /\ DeclaredColumn(name).type = "INTEGER"
  THEN ValueAfter(i, name) = Num(10 * i)
  ELSE HoldsDeclaredDefault(i, name)

C5_TypeChangedWitness ==
  /\ Migrated
  /\ \E name \in NewNames \cap OldNames :
       /\ TypeChanged(name)
       /\ \E i \in 1..Len(TableBefore.rows) : ~KeepsValue(i, name)

-----------------------------------------------------------------------------
(* C6: migration is all-or-nothing: if any statement of the migration      *)
(* sequence fails, createOrUpdateTable rejects and, as seen by every later  *)
(* operation on the connection, the table still exists under its original   *)
(* name with its original columns and rows, and the connection is not left  *)
(* inside an open transaction.                                              *)
MigrationFailed ==
  /\ last.op = "createOrUpdateTable"
  /\ "BEGIN TRANSACTION" \in SeqToSet(last.statements)
  /\ "COMMIT" \notin SeqToSet(last.statements)

C6_MigrationAllOrNothing ==
  MigrationFailed =>
    /\ last.status = "rejected"
    /\ TableAfter = TableBefore
    /\ ~inTransaction

-----------------------------------------------------------------------------
(* SpecDefault: one column default, declared, written with createTable,    *)
(* read back with getSchemaFromDatabase and compared with                  *)
(* _schemaMatchesDatabase.                                                 *)

MaxDefaultTenths == 30

MaxDefaultLen == 2

DefaultAlphabet == {"a", "5", Quote}

Texts(alphabet, maxLen) == UNION {[1..n -> alphabet] : n \in 0..maxLen}

\* The declared defaults: the numbers -3.0 .. 3.0 in tenths, the strings over
\* the alphabet, and no default.
DefaultValues ==
  {Num(n) : n \in -MaxDefaultTenths..MaxDefaultTenths}
  \cup {Str(s) : s \in Texts(DefaultAlphabet, MaxDefaultLen)}
  \cup {NoDefault}

DefaultSchema(type, defaultValue) ==
  Schema(<<IdColumn, [ValueColumn(type) EXCEPT !.defaultValue = defaultValue]>>, <<>>)

DeclaredSchema == DefaultSchema(rt.type, rt.defaultValue)

CreateDeclared ==
  /\ rt.pc = "declared"
  /\ LET result == createTable(Db, DeclaredSchema)
     IN /\ tables' = result.tables
        /\ rt' = [rt EXCEPT !.pc = IF result.status = "resolved"
                                   THEN "created" ELSE "rejected"]
  /\ UNCHANGED <<inTransaction, foreignKeysOn, last, up, cq, st>>

IntrospectCreated ==
  /\ rt.pc = "created"
  /\ rt' = [pc |-> "introspected", type |-> rt.type, defaultValue |-> rt.defaultValue,
            oldSchema |-> GetSchemaFromDatabase(tables[TableName])]
  /\ UNCHANGED <<tables, inTransaction, foreignKeysOn, last, up, cq, st>>

CompareIntrospected ==
  /\ rt.pc = "introspected"
  /\ rt' = [pc |-> "compared", type |-> rt.type, defaultValue |-> rt.defaultValue,
            oldSchema |-> rt.oldSchema,
            match |-> SchemaMatchesDatabase(DeclaredSchema, rt.oldSchema)]
  /\ UNCHANGED <<tables, inTransaction, foreignKeysOn, last, up, cq, st>>

InitDefault ==
  /\ tables = [name \in {TableName, BackupTableName} |-> NoTable]
  /\ inTransaction = FALSE
  /\ foreignKeysOn = FALSE
  /\ last = NoCall
  /\ rt \in {[pc |-> "declared", type |-> type, defaultValue |-> defaultValue] :
               type \in {"REAL", "TEXT"}, defaultValue \in DefaultValues}
  /\ st = Idle
  /\ up = Idle
  /\ cq = Idle

NextDefault == CreateDeclared \/ IntrospectCreated \/ CompareIntrospected

SpecDefault == InitDefault /\ [][NextDefault]_vars

(* C7: default values round-trip: for every column default that is a       *)
(* number (including 0 and non-integers such as 0.1 and 3.0) or a string    *)
(* (including the empty string), creating the table from the declared       *)
(* schema and introspecting it yields the same default value, and the       *)
(* schema comparison reports the introspected schema equal to the           *)
(* declaration; an absent default round-trips as 'no default'.              *)
IntrospectedDefault == ColumnNamed(rt.oldSchema.columns, "value").defaultValue

C7_DefaultsRoundTrip ==
  /\ rt.pc # "rejected"
  /\ rt.pc \in {"introspected", "compared"} =>
       IntrospectedDefault = (IF rt.defaultValue = NoDefault THEN Null ELSE rt.defaultValue)
  /\ rt.pc = "compared" => rt.match = "match"

\* The same for the defaults that hold no double quote.
QuoteFree == rt.defaultValue.t = "str" => Quote \notin SeqToSet(rt.defaultValue.v)

C7_QuoteFreeDefaultsRoundTrip == QuoteFree => C7_DefaultsRoundTrip

-----------------------------------------------------------------------------
(* SqlStatementParameters and the expression parser of BuildQuery.         *)
(* A filter is a JavaScript value: a number, a string, a boolean, null, a   *)
(* Date, an array, or an object given as the sequence of its <<key, value>> *)
(* pairs in key order.  SQL text is a string.                               *)

Bool(b) == [t |-> "bool", v |-> b]

Date == [t |-> "date"]

Arr(items) == [t |-> "arr", v |-> items]

Obj(pairs) == [t |-> "obj", v |-> pairs]

\* _.isObject
isObject(x) == x.t \in {"obj", "arr", "date"}

\* Object.keys: of an array its indices, of a Date none.
Keys(x) ==
  IF x.t = "obj" THEN [i \in 1..Len(x.v) |-> x.v[i][1]]
  ELSE IF x.t = "arr" THEN [i \in 1..Len(x.v) |-> ToString(i - 1)]
  ELSE <<>>

\* The value of the i-th key.
ValueAt(x, i) == IF x.t = "obj" THEN x.v[i][2] ELSE x.v[i]

NewParameters == [id |-> 1, params |-> <<>>]

\* _sqliteConvertValue: `typeof x` is never 'bool', so a boolean is returned
\* as it is; Date has no getUtc method.
_sqliteConvertValue(x) ==
  IF x.t = "date" THEN [ok |-> FALSE, error |-> "TypeError"]
  ELSE IF x.t \in {"obj", "arr"} THEN [ok |-> FALSE, error |-> "Invalid type"]
  ELSE [ok |-> TRUE, value |-> x]

PlaceholderName(id) == "$p" \o ToString(id)

addParam_firstName(parameters, value) ==
  [ok |-> TRUE,
   identifier |-> PlaceholderName(1),
   parameters |-> [id |-> parameters.id + 1,
                   params |-> Append(parameters.params, <<PlaceholderName(1), value>>)]]

\* addParam: the placeholder name and the binder afterwards (this.id++ comes
\* before the conversion can throw).
addParam(parameters, value) ==
  LET converted == _sqliteConvertValue(value)
      uniqueIdentifier == PlaceholderName(parameters.id)
  IN IF converted.ok
     THEN [ok |-> TRUE,
           identifier |-> uniqueIdentifier,
           parameters |-> [id |-> parameters.id + 1,
                           params |-> Append(parameters.params,
                                             <<uniqueIdentifier, converted.value>>)]]
     ELSE [ok |-> FALSE, error |-> converted.error,
           parameters |-> [parameters EXCEPT !.id = parameters.id + 1]]

\* What a parse function gives: SQL text, nothing (null or undefined), or a
\* thrown error; and the binder afterwards.
Sql(text, parameters) == [status |-> "sql", sql |-> text, parameters |-> parameters]

Nothing(parameters) == [status |-> "nothing", sql |-> "", parameters |-> parameters]

Thrown(error, parameters) == [status |-> "thrown", sql |-> error, parameters |-> parameters]

_parseUnaryExpression_anyString(parameters, expression) ==
  IF expression.t \in {"str", "num"}
  THEN LET added == addParam(parameters, expression)
       IN Sql(added.identifier, added.parameters)
  ELSE Nothing(parameters)

_parseUnaryExpression(parameters, expression) ==
  IF \/ expression.t = "str" /\ (expression.v = <<>> \/ Head(expression.v) # "$")
     \/ expression.t = "num"
  THEN LET added == addParam(parameters, expression)
       IN Sql(added.identifier, added.parameters)
  ELSE Nothing(parameters)

RECURSIVE Join(_, _)
Join(texts, separator) ==
  IF texts = <<>> THEN ""
  ELSE IF Len(texts) = 1 THEN texts[1]
  ELSE texts[1] \o separator \o Join(Tail(texts), separator)

LogicalOperators == <<<<"$and", " AND ">>, <<"$or", " OR ">>>>

BinaryOperators ==
  <<<<"$eq", "=">>, <<"$gt", ">">>, <<"$lt", "<">>, <<"$ge", ">=">>, <<"$le", "<=">>>>

\* The SQL text a table of operators gives for `key`, "" when it has none.
OperatorSql(operators, key) ==
  IF \E i \in 1..Len(operators) : operators[i][1] = key
  THEN operators[CHOOSE i \in 1..Len(operators) : operators[i][1] = key][2]
  ELSE ""

ImplicitAnd_or == " OR "

\* The separator of the parts of a multi-key expression.
ImplicitAnd == " AND "

RECURSIVE _parseExpression(_, _)
RECURSIVE ParseEach(_, _, _, _)
\* expressions.map(parse) from element i on, the binder threaded through:
\* the texts, or the first error thrown.  `strict` is the check of
\* _parseLogicalExpression that the text is not empty.
ParseEach(parameters, expressions, i, strict) ==
  IF i > Len(expressions) THEN [status |-> "sql", sqls |-> <<>>, parameters |-> parameters]
  ELSE LET value == _parseExpression(parameters, expressions[i])
       IN IF value.status = "thrown"
          THEN [status |-> "thrown", sqls |-> <<>>, parameters |-> value.parameters]
          ELSE IF strict /\ value.sql = ""
          THEN [status |-> "thrown", sqls |-> <<>>, parameters |-> value.parameters]
          ELSE LET rest == ParseEach(value.parameters, expressions, i + 1, strict)
               IN [rest EXCEPT !.sqls = <<value.sql>> \o rest.sqls]

_parseLogicalExpression_unwrapped(parameters, left, rest) ==
  IF rest.t = "arr" /\ OperatorSql(LogicalOperators, left) # ""
  THEN LET sqlExpressions == ParseEach(parameters, rest.v, 1, TRUE)
       IN IF sqlExpressions.status = "thrown"
          THEN Thrown("Invalid syntax", sqlExpressions.parameters)
          ELSE Sql(Join(sqlExpressions.sqls, OperatorSql(LogicalOperators, left)),
                   sqlExpressions.parameters)
  ELSE Nothing(parameters)

_parseLogicalExpression(parameters, left, rest) ==
  IF rest.t = "arr" /\ OperatorSql(LogicalOperators, left) # ""
  THEN LET sqlExpressions == ParseEach(parameters, rest.v, 1, TRUE)
       IN IF sqlExpressions.status = "thrown"
          THEN Thrown("Invalid syntax", sqlExpressions.parameters)
          ELSE Sql("(" \o Join(sqlExpressions.sqls, OperatorSql(LogicalOperators, left))
                       \o ")",
                   sqlExpressions.parameters)
  ELSE Nothing(parameters)

_parseBinaryExpression(parameters, left, rest) ==
  IF isObject(rest)
  THEN IF Len(Keys(rest)) # 1 THEN Thrown("Invalid syntax", parameters)
       ELSE IF OperatorSql(BinaryOperators, Keys(rest)[1]) # ""
       THEN LET rightValue == _parseExpression(parameters, ValueAt(rest, 1))
            IN IF rightValue.status = "thrown"
               THEN Thrown("Invalid syntax", rightValue.parameters)
               ELSE Sql("(" \o left \o " "
                            \o OperatorSql(BinaryOperators, Keys(rest)[1])
                            \o " " \o rightValue.sql \o ")",
                        rightValue.parameters)
       ELSE Nothing(parameters)
  ELSE Nothing(parameters)

_parseExpression(parameters, expression) ==
  LET unaryValue == _parseUnaryExpression(parameters, expression)
  IN IF unaryValue.status = "sql" THEN unaryValue
     ELSE IF ~isObject(expression) THEN Thrown("Invalid syntax", parameters)
     ELSE IF Len(Keys(expression)) > 1
     THEN LET each == ParseEach(parameters,
                                [i \in 1..Len(Keys(expression)) |->
                                   Obj(<<<<Keys(expression)[i], ValueAt(expression, i)>>>>)],
                                1, FALSE)
          IN IF each.status = "thrown" THEN Thrown("Invalid syntax", each.parameters)
             ELSE Sql(Join(each.sqls, ImplicitAnd), each.parameters)
     ELSE IF Len(Keys(expression)) # 1 THEN Thrown("Invalid syntax", parameters)
     ELSE LET left == Keys(expression)[1]
              right == ValueAt(expression, 1)
              unaryRightValue == _parseUnaryExpression(parameters, right)
              logicalValue == _parseLogicalExpression(parameters, left, right)
              binaryValue == _parseBinaryExpression(parameters, left, right)
          IN IF unaryRightValue.status = "sql"
             THEN Sql("(" \o left \o " = " \o unaryRightValue.sql \o ")",
                      unaryRightValue.parameters)
             ELSE IF logicalValue.status # "nothing" THEN logicalValue
             ELSE IF binaryValue.status # "nothing" THEN binaryValue
             ELSE Thrown("Invalid syntax", parameters)

-----------------------------------------------------------------------------
(* SpecCompile: one filter parsed with _parseExpression on a binder that   *)
(* has made some allocations already.                                      *)

MaxPrior == 2

Fields == {"a", "b"}

\* Numbers (1, -0.5, 0), strings (empty, plain, '$'-prefixed) and the values
\* that are neither.
Scalars ==
  {Num(10), Num(-5), Num(0), Str(<<>>), Str(<<"x">>), Str(<<"$", "x">>), Bool(TRUE),
   Null, Date}

\* The binary operators, and two keys that are none.
OperatorKeys == {"$eq", "$gt", "$lt", "$ge", "$le", "$ne", "c"}

Implicit(f, v) == Obj(<<<<f, v>>>>)

Binary(f, op, v) == Obj(<<<<f, Obj(<<<<op, v>>>>)>>>>)

SimpleFilters ==
  {Implicit(f, v) : f \in Fields, v \in Scalars}
  \cup {Binary(f, op, v) : f \in Fields, op \in OperatorKeys, v \in Scalars}

\* Filters of more than one part: two keys, two operators under one field,
\* $and and $or of up to two operands (single-field, multi-key, nested $or,
\* invalid), an operator nested in another.
CompoundParts ==
  {Implicit("a", Num(10)), Binary("b", "$gt", Str(<<"x">>)),
   Implicit("b", Str(<<"$", "x">>)),
   Obj(<<<<"a", Num(0)>>, <<"b", Str(<<"x">>)>>>>),
   Implicit("$or", Arr(<<Implicit("a", Num(-5)), Binary("b", "$le", Num(10))>>))}

CompoundFilters ==
  {Obj(<<<<"a", v>>, <<"b", w>>>>) : v, w \in {Num(10), Str(<<"x">>), Null}}
  \cup {Obj(<<<<"a", Obj(<<<<"$gt", Num(10)>>, <<"$lt", Num(-5)>>>>)>>>>),
        Obj(<<<<"a", Obj(<<>>)>>>>), Obj(<<>>), Implicit("a", Arr(<<Num(10)>>)),
        Binary("a", "$gt", Obj(<<<<"$lt", Num(10)>>>>))}
  \cup {Implicit(op, Arr(e)) :
          op \in {"$and", "$or", "a"},
          e \in {<<>>} \cup {<<x>> : x \in CompoundParts}
                 \cup {<<x, y>> : x, y \in CompoundParts}}

Filters == SimpleFilters \cup CompoundFilters

RECURSIVE PriorParameters(_)
\* The binder after n allocations.
PriorParameters(n) ==
  IF n = 0 THEN NewParameters ELSE addParam(PriorParameters(n - 1), Num(70)).parameters

ParseFilter ==
  /\ cq.pc = "built"
  /\ LET result == _parseExpression(cq.parameters, cq.filter)
     IN cq' = [pc |-> "parsed", filter |-> cq.filter, before |-> cq.parameters,
               status |-> result.status, sql |-> result.sql,
               parameters |-> result.parameters]
  /\ UNCHANGED <<tables, inTransaction, foreignKeysOn, last, rt, up, st>>

InitCompile ==
  /\ tables = [name \in {TableName, BackupTableName} |-> NoTable]
  /\ inTransaction = FALSE
  /\ foreignKeysOn = FALSE
  /\ last = NoCall
  /\ st = Idle
  /\ rt = Idle
  /\ up = Idle
  /\ cq \in {[pc |-> "built", filter |-> filter, parameters |-> PriorParameters(n)] :
               filter \in Filters, n \in 0..MaxPrior}

NextCompile == ParseFilter

SpecCompile == InitCompile /\ [][NextCompile]_vars

(* C10: for every field name f and every scalar v that is a number or a    *)
(* string not starting with '$': the filter {f: v} compiles to exactly      *)
(* `(f = $pN)`, and {f: {$op: v}} with $op in {$eq, $gt, $lt, $ge, $le}     *)
(* compiles to exactly `(f OP $pN)` with OP respectively =, >, <, >=, <=;   *)
(* in both cases $pN is bound to v and N is the next unused placeholder     *)
(* number of the compile pass.                                              *)
IsBindableScalar(v) ==
  \/ v.t = "num"
  \/ v.t = "str" /\ (Len(v.v) = 0 \/ v.v[1] # "$")

ComparisonSql(op) ==
  CASE op = "$eq" -> "="
    [] op = "$gt" -> ">"
    [] op = "$lt" -> "<"
    [] op = "$ge" -> ">="
    [] op = "$le" -> "<="

\* The number of allocations the binder has made.
Allocated(parameters) == Len(parameters.params)

\* The parse gave `(f OP $pN)` and bound $pN, the next unused name, to v.
CompiledTo(f, operator, v) ==
  LET N == Allocated(cq.before) + 1
      pN == "$p" \o ToString(N)
  IN /\ cq.status = "sql"
     /\ cq.sql = "(" \o f \o " " \o operator \o " " \o pN \o ")"
     /\ cq.parameters.params = Append(cq.before.params, <<pN, v>>)
     /\ \A i \in 1..Allocated(cq.before) : cq.before.params[i][1] # pN

C10_ComparisonCompiles ==
  cq.pc = "parsed" =>
    /\ \A f \in Fields, v \in Scalars :
         (IsBindableScalar(v) /\ cq.filter = Implicit(f, v)) => CompiledTo(f, "=", v)
    /\ \A f \in Fields, v \in Scalars, op \in {"$eq", "$gt", "$lt", "$ge", "$le"} :
         (IsBindableScalar(v) /\ cq.filter = Binary(f, op, v))
           => CompiledTo(f, ComparisonSql(op), v)

\* A `>=` comparison with a string was compiled after two earlier allocations.
C10_Witness ==
  /\ cq.pc = "parsed"
  /\ cq.filter = Binary("b", "$ge", Str(<<"x">>))
  /\ Allocated(cq.before) = MaxPrior
  /\ cq.status = "sql"

-----------------------------------------------------------------------------
(* Table.insertUpdateUnique and what it calls: _extractUniqueColumns,      *)
(* _extractPrimaryKey, find(...).get(), find(...).update(...), insert.     *)
(* A row given by the caller is the sequence of its <<column, value>>      *)
(* pairs; a row read from the table and a result are functions from keys   *)
(* to values.                                                               *)

Undefined == [t |-> "undefined"]

ObjectOf(pairs) ==
  [key \in {pairs[i][1] : i \in 1..Len(pairs)} |->
     pairs[CHOOSE i \in 1..Len(pairs) :
             pairs[i][1] = key /\ \A j \in (i + 1)..Len(pairs) : pairs[j][1] # key][2]]

\* {...a, ...b}
Spread(a, b) ==
  [key \in DOMAIN a \cup DOMAIN b |-> IF key \in DOMAIN b THEN b[key] ELSE a[key]]

\* The first column of the row that is unique or the primary key; throws at
\* a column the schema does not have, and when it finds none.
InSchema(schema, columnName) == columnName \in SeqToSet(ColumnNames(schema.columns))

\* The loop ends at pair i of the row: with a throw, or with the pair.
UniqueColumnsAt(schema, row, i) ==
  IF ~InSchema(schema, row[i][1])
  THEN [ok |-> FALSE, uniqueColumns |-> <<>>]
  ELSE [ok |-> TRUE, uniqueColumns |-> <<row[i]>>]

UniqueColumnsAmong(schema, row, stops) ==
  IF stops = {} THEN [ok |-> FALSE, uniqueColumns |-> <<>>]
  ELSE UniqueColumnsAt(schema, row, CHOOSE i \in stops : \A j \in stops : i <= j)

_extractUniqueColumns(schema, row) ==
  UniqueColumnsAmong(schema, row,
    {i \in 1..Len(row) :
       \/ ~InSchema(schema, row[i][1])
       \/ ColumnNamed(schema.columns, row[i][1]).unique
       \/ ColumnNamed(schema.columns, row[i][1]).primaryKey})

\* The name of the first primary-key column, "" when there is none.
_extractPrimaryKey(schema) ==
  LET keys == {i \in 1..Len(schema.columns) : schema.columns[i].primaryKey}
  IN IF keys = {} THEN ""
     ELSE schema.columns[CHOOSE i \in keys : \A j \in keys : i <= j].name

\* _buildSqlQuery of a query whose filter is the object `queryColumns`.
BuildSqlQuery(queryColumns) == _parseExpression(NewParameters, Obj(queryColumns))

RECURSIVE AddParams(_, _, _)
\* update(newValues): one addParam per new value, from pair i on.
AddParams(parameters, newValues, i) ==
  IF i > Len(newValues) THEN [ok |-> TRUE, parameters |-> parameters]
  ELSE LET added == addParam(parameters, newValues[i][2])
       IN IF ~added.ok THEN [ok |-> FALSE, parameters |-> added.parameters]
          ELSE AddParams(added.parameters, newValues, i + 1)

\* A row as a caller reads it.
ReadRow(stored) == [name \in DOMAIN stored |-> ColumnValue(stored[name])]

\* The rows a WHERE (column = value) selects, by position.
EngineWhere(table, column, value) ==
  {i \in 1..Len(table.rows) :
     /\ value # Null
     /\ table.rows[i][column]
          = EngineAffinity(ColumnNamed(table.columns, column).type, Bind(value))}

\* SELECT * ... WHERE (column = value), first row: the row, or undefined.
FirstOf(table, selected) ==
  IF selected = {} THEN Undefined
  ELSE ReadRow(table.rows[CHOOSE i \in selected : \A j \in selected : i <= j])

EngineGet(table, column, value) == FirstOf(table, EngineWhere(table, column, value))

\* The rows after UPDATE ... SET newValues WHERE (column = value).
UpdatedRows(table, selected, newValues) ==
  [i \in 1..Len(table.rows) |->
     IF i \in selected
     THEN [name \in DOMAIN table.rows[i] |->
             IF name \in DOMAIN newValues
             THEN EngineAffinity(ColumnNamed(table.columns, name).type,
                                 Bind(newValues[name]))
             ELSE table.rows[i][name]]
     ELSE table.rows[i]]

EngineUpdatedRows(table, column, value, newValues) ==
  UpdatedRows(table, EngineWhere(table, column, value), newValues)

\* The constraint the updated rows violate, "" when none.
FirstError(errors) ==
  IF \A i \in 1..Len(errors) : errors[i] = "" THEN ""
  ELSE errors[CHOOSE i \in 1..Len(errors) :
                errors[i] # "" /\ \A j \in 1..(i - 1) : errors[j] = ""]

EngineUpdateError(table, rows) ==
  FirstError([i \in 1..Len(rows) |->
                EngineRowError(table, SubSeq(rows, 1, i - 1), rows[i])])

-----------------------------------------------------------------------------
(* SpecUpsert: insertUpdateUnique calls on one table, each call a chain of *)
(* statements (get, then insert or update, then once more after a UNIQUE   *)
(* failure) between which the statements of other calls may run.           *)

MaxCalls == 3

Calls == {1, 2}

UpsertSchema(primaryKeyName) ==
  Schema(<<[IdColumn EXCEPT !.name = primaryKeyName],
           [ValueColumn("TEXT") EXCEPT !.name = "name", !.unique = TRUE],
           ValueColumn("REAL")>>,
         <<>>)

PrimaryKeyNames == {"id", "key_id"}

UpsertKeys == {Str(<<"k">>), Str(<<"j">>), Str(<<"$", "k">>)}

UpsertValues == {Num(10), Num(25)}

UpsertRows == {<<<<"name", key>>, <<"value", value>>>> : key \in UpsertKeys, value \in UpsertValues}

NoCallYet ==
  [pc |-> "idle", row |-> <<>>, attempt |-> 0, oldRow |-> Undefined, result |-> Undefined,
   error |-> "", seq |-> 0, overlaps |-> {}, before |-> <<>>, after |-> <<>>,
   lookups |-> 0, writes |-> 0, failures |-> <<>>, prior |-> <<>>]

InFlight == {"get", "insert", "update"}

Finished == {"resolved", "rejected", "thrown"}

UpsertTable == tables[TableName]

\* The call after the write that settles it; prior holds the rows the write
\* found.
Settled(call, pc, result, error, rows) ==
  [call EXCEPT !.pc = pc, !.result = result, !.error = error, !.after = rows,
               !.writes = @ + 1, !.prior = UpsertTable.rows]

\* The lookup is not sent: _extractUniqueColumns threw, or the query of
\* find(uniqueColumns).get() could not be built.
LookupThrows(unique) ==
  ~unique.ok \/ BuildSqlQuery(unique.uniqueColumns).status = "thrown"

\* The call itself: _extractUniqueColumns and the get() of the lookup, whose
\* query is built, and may throw, before the call returns.
InsertUpdateUnique(c, row) ==
  /\ up.issued < MaxCalls
  /\ up.calls[c].pc \notin InFlight
  /\ \E thrown \in {LookupThrows(_extractUniqueColumns(up.schema, row))} :
       up' = [up EXCEPT
                !.issued = up.issued + 1,
                !.sequential = up.sequential /\ \A d \in Calls : up.calls[d].pc \notin InFlight,
                !.calls[c] = [NoCallYet EXCEPT
                                !.pc = IF thrown THEN "thrown" ELSE "get",
                                !.row = row,
                                !.attempt = 1,
                                !.error = IF thrown THEN "Error" ELSE "",
                                !.seq = up.issued + 1,
                                !.overlaps = {up.calls[d].seq :
                                                d \in {e \in Calls : up.calls[e].pc \in InFlight}},
                                !.before = UpsertTable.rows,
                                !.after = UpsertTable.rows]]
  /\ UNCHANGED <<tables, inTransaction, foreignKeysOn, last, rt, cq, st>>

\* find({id: oldRow.id}).update(row) builds its statement: the filter, then
\* one parameter per new value.
UpdateBuilt(where, row) ==
  where.status = "sql" /\ AddParams(where.parameters, row, 1).ok

UpdateBuilds(oldRow, row) ==
  UpdateBuilt(BuildSqlQuery(<<<<"id", IF "id" \in DOMAIN oldRow THEN oldRow["id"]
                                      ELSE Undefined>>>>),
              row)

\* updateOldRow: the call after its lookup gave oldRow.  The call counts the
\* lookups the engine answered (lookups) and lists the errors its attempts
\* ended with (failures).
updateOldRow(c, oldRow) ==
  IF oldRow = Undefined
  THEN up' = [up EXCEPT !.calls[c].pc = "insert", !.calls[c].lookups = @ + 1]
  ELSE IF UpdateBuilds(oldRow, up.calls[c].row)
  THEN up' = [up EXCEPT !.calls[c].pc = "update", !.calls[c].oldRow = oldRow,
                        !.calls[c].lookups = @ + 1]
  ELSE up' = [up EXCEPT !.calls[c].pc = "rejected", !.calls[c].result = Undefined,
                        !.calls[c].oldRow = oldRow,
                        !.calls[c].error = "Invalid syntax",
                        !.calls[c].after = UpsertTable.rows,
                        !.calls[c].lookups = @ + 1,
                        !.calls[c].failures = Append(@, "Invalid syntax")]

LookupOf(uniqueColumns) ==
  EngineGet(UpsertTable, uniqueColumns[1][1], uniqueColumns[1][2])

\* The engine answers the lookup, and updateOldRow sends the insert or builds
\* and sends the update of the row whose id is oldRow.id.
Get(c) ==
  /\ up.calls[c].pc = "get"
  /\ updateOldRow(c, LookupOf(_extractUniqueColumns(up.schema, up.calls[c].row).uniqueColumns))
  /\ UNCHANGED <<tables, inTransaction, foreignKeysOn, last, rt, cq, st>>

WithPrimaryKey(res, primaryKeyName, lastID) ==
  IF primaryKeyName # "" THEN Spread(res, [key \in {primaryKeyName} |-> lastID]) ELSE res

InsertResult(schema, row, lastID) ==
  WithPrimaryKey(Spread(ObjectOf(row), [key \in {"id"} |-> lastID]),
                 _extractPrimaryKey(schema), lastID)

\* insertUpdateUnique whose catch rethrows every error.
Written_noRetry(c, error, rows, result) ==
  /\ tables' = [tables EXCEPT ![TableName].rows = IF error = "" THEN rows ELSE @]
  /\ IF error = ""
     THEN up' = [up EXCEPT !.calls[c] = Settled(@, "resolved", result, "", rows)]
     ELSE up' = [up EXCEPT !.calls[c] =
                   [Settled(@, "rejected", Undefined, error, UpsertTable.rows)
                      EXCEPT !.failures = Append(@, error)]]

\* The write of call c gave `error` ("" when it was done, leaving `rows`):
\* the call resolves to `result`, or after a UNIQUE failure of its first
\* attempt looks the row up again, or rejects.
Written(c, error, rows, result) ==
  /\ tables' = [tables EXCEPT ![TableName].rows = IF error = "" THEN rows ELSE @]
  /\ IF error = ""
     THEN up' = [up EXCEPT !.calls[c] = Settled(@, "resolved", result, "", rows)]
     ELSE IF error = "UNIQUE constraint failed" /\ up.calls[c].attempt = 1
     THEN up' = [up EXCEPT !.calls[c].pc = "get", !.calls[c].attempt = 2,
                           !.calls[c].writes = @ + 1,
                           !.calls[c].failures = Append(@, error)]
     ELSE up' = [up EXCEPT !.calls[c] =
                   [Settled(@, "rejected", Undefined, error, UpsertTable.rows)
                      EXCEPT !.failures = Append(@, error)]]

Inserted(c, inserted) ==
  Written(c, inserted.error, inserted.tables[TableName].rows,
          IF inserted.status = "resolved"
          THEN InsertResult(up.schema, up.calls[c].row,
                            (CHOOSE pair \in inserted.value : TRUE)[2])
          ELSE Undefined)

Updated(c, updated) ==
  Written(c, EngineUpdateError(UpsertTable, updated), updated,
          Spread(up.calls[c].oldRow, ObjectOf(up.calls[c].row)))

\* The engine runs the insert or the update of call c.
Write(c) ==
  /\ up.calls[c].pc \in {"insert", "update"}
  /\ IF up.calls[c].pc = "insert"
     THEN Inserted(c, insert(Db, ObjectOf(up.calls[c].row)))
     ELSE Updated(c, EngineUpdatedRows(UpsertTable, "id", up.calls[c].oldRow["id"],
                                       ObjectOf(up.calls[c].row)))
  /\ UNCHANGED <<inTransaction, foreignKeysOn, last, rt, cq, st>>

InitUpsert ==
  /\ \E primaryKeyName \in PrimaryKeyNames :
       /\ up = [schema |-> UpsertSchema(primaryKeyName), issued |-> 0, sequential |-> TRUE,
                calls |-> [c \in Calls |-> NoCallYet]]
       /\ tables = [name \in {TableName, BackupTableName} |->
                      IF name = TableName
                      THEN EngineNewTable(CreateTableSql(UpsertSchema(primaryKeyName)))
                      ELSE NoTable]
  /\ inTransaction = FALSE
  /\ foreignKeysOn = FALSE
  /\ last = NoCall
  /\ st = Idle
  /\ rt = Idle
  /\ cq = Idle

NextUpsert ==
  \/ \E c \in Calls, row \in UpsertRows : InsertUpdateUnique(c, row)
  \/ \E c \in Calls : Get(c)
  \/ \E c \in Calls : Write(c)

SpecUpsert == InitUpsert /\ [][NextUpsert]_vars

-----------------------------------------------------------------------------
(* The claims about insertUpdateUnique.  Of a call the model keeps the     *)
(* rows of the table when it was issued (before) and when it settled       *)
(* (after), the number of its issue (seq) and the numbers of the calls in   *)
(* flight when it was issued (overlaps); up.sequential says that no call    *)
(* was ever issued while another was in flight.                             *)

PrimaryKeyName == _extractPrimaryKey(up.schema)

KeyOf(call) == ObjectOf(call.row)["name"]

StoredWithKey(rows, key) == {i \in 1..Len(rows) : ColumnValue(rows[i]["name"]) = key}

\* The call inserted: one more row, which holds the given values, and the
\* result is the given row with the id of that row.
CallInserted(call) ==
  /\ Len(call.after) = Len(call.before) + 1
  /\ SubSeq(call.after, 1, Len(call.before)) = call.before
  /\ \A i \in 1..Len(call.before) :
       call.before[i][PrimaryKeyName] # call.after[Len(call.after)][PrimaryKeyName]
  /\ "id" \in DOMAIN call.result
  /\ call.result["id"] = ColumnValue(call.after[Len(call.after)][PrimaryKeyName])
  /\ \A key \in DOMAIN ObjectOf(call.row) :
       /\ call.result[key] = ObjectOf(call.row)[key]
       /\ ColumnValue(call.after[Len(call.after)][key]) = ObjectOf(call.row)[key]

\* The call updated row i: no row more, the result is the stored row merged
\* with the given values, it carries the id of row i, and row i now holds it.
CallUpdated(call, i) ==
  /\ Len(call.after) = Len(call.before)
  /\ \A j \in 1..Len(call.before) : j # i => call.after[j] = call.before[j]
  /\ call.result = Spread(ReadRow(call.before[i]), ObjectOf(call.row))
  /\ "id" \in DOMAIN call.result
  /\ call.result["id"] = ColumnValue(call.before[i][PrimaryKeyName])
  /\ \A key \in DOMAIN call.after[i] : ColumnValue(call.after[i][key]) = call.result[key]

CallUpserted(call) ==
  /\ call.pc = "resolved"
  /\ IF StoredWithKey(call.before, KeyOf(call)) = {} THEN CallInserted(call)
     ELSE \A i \in StoredWithKey(call.before, KeyOf(call)) : CallUpdated(call, i)

OneRowPerKey ==
  \A i, j \in 1..Len(UpsertTable.rows) :
    UpsertTable.rows[i]["name"] = UpsertTable.rows[j]["name"] => i = j

(* C8: for any sequence of insertUpdateUnique calls, each awaited before   *)
(* the next is issued, the table holds at most one row per unique-key       *)
(* value; the first call for a key inserts and returns the row with its     *)
(* generated id, and every later call for the same key updates that row     *)
(* and returns the stored row merged with the supplied values, carrying     *)
(* the same id (no second insert).                                          *)
C8_SequentialUpserts ==
  up.sequential =>
    /\ OneRowPerKey
    /\ \A c \in Calls : up.calls[c].pc \in Finished => CallUpserted(up.calls[c])

\* The same on the tables whose primary key is named id, for the keys that
\* do not start with '$'.
IsPlain(call) == PrimaryKeyName = "id" /\ Head(KeyOf(call).v) # "$"

C8_SequentialUpsertsOnId ==
  up.sequential =>
    /\ OneRowPerKey
    /\ \A c \in Calls :
         (up.calls[c].pc \in Finished /\ IsPlain(up.calls[c])) => CallUpserted(up.calls[c])

(* C9: for two insertUpdateUnique calls with the same unique-key value     *)
(* issued concurrently on a table with no row for that key, under every     *)
(* interleaving of their lookup and write steps both calls resolve          *)
(* (neither rejects with a uniqueness violation), the table ends with       *)
(* exactly one row for the key, and both results carry the id generated by  *)
(* the insert that won.                                                     *)
Concurrent(a, b) == a.seq \in b.overlaps \/ b.seq \in a.overlaps

\* Calls 1 and 2 were such a pair and both have settled.
RaceSettled ==
  /\ up.calls[1].pc \in Finished
  /\ up.calls[2].pc \in Finished
  /\ Concurrent(up.calls[1], up.calls[2])
  /\ KeyOf(up.calls[1]) = KeyOf(up.calls[2])
  /\ StoredWithKey(up.calls[1].before, KeyOf(up.calls[1])) = {}
  /\ StoredWithKey(up.calls[2].before, KeyOf(up.calls[2])) = {}

BothCarryWinnersId ==
  /\ up.calls[1].pc = "resolved"
  /\ up.calls[2].pc = "resolved"
  /\ Cardinality(StoredWithKey(UpsertTable.rows, KeyOf(up.calls[1]))) = 1
  /\ \A i \in StoredWithKey(UpsertTable.rows, KeyOf(up.calls[1])) :
       \A c \in Calls :
         /\ "id" \in DOMAIN up.calls[c].result
         /\ up.calls[c].result["id"] = ColumnValue(UpsertTable.rows[i][PrimaryKeyName])

C9_ConcurrentUpserts == RaceSettled => BothCarryWinnersId

C9_ConcurrentUpsertsOnId ==
  (RaceSettled /\ IsPlain(up.calls[1])) => BothCarryWinnersId

\* The race happened on such a table: the second insert failed and the call
\* resolved on its second attempt.
C9_RaceOnId ==
  /\ RaceSettled
  /\ IsPlain(up.calls[1])
  /\ \E c \in Calls : up.calls[c].attempt = 2 /\ up.calls[c].pc = "resolved"

-----------------------------------------------------------------------------
(* What the compilation of a filter is expected to be, written from the    *)
(* grammar of filters rather than from the parser: the text, and the       *)
(* placeholders bound from number n on.  `group` says whether a multi-key   *)
(* operand of $and / $or is wrapped in parentheses of its own.              *)

LogicalSql(op) == IF op = "$and" THEN " AND " ELSE " OR "

Invalid == [ok |-> FALSE, sql |-> "", binds |-> <<>>]

Comparison(f, operator, v, n) ==
  [ok |-> TRUE,
   sql |-> "(" \o f \o " " \o operator \o " $p" \o ToString(n) \o ")",
   binds |-> <<<<"$p" \o ToString(n), v>>>>]

RECURSIVE Expected(_, _, _, _)
RECURSIVE ExpectedEach(_, _, _, _)
\* The expected compilations of a list of filters, the placeholders numbered
\* in list order.
ExpectedEach(filters, n, group, operand) ==
  IF filters = <<>> THEN [ok |-> TRUE, sqls |-> <<>>, binds |-> <<>>]
  ELSE LET first == Expected(Head(filters), n, group, operand)
           rest == ExpectedEach(Tail(filters), n + Len(first.binds), group, operand)
       IN [ok |-> first.ok /\ rest.ok,
           sqls |-> <<first.sql>> \o rest.sqls,
           binds |-> first.binds \o rest.binds]

\* `operand` says that the filter is an operand of $and / $or.
Expected(filter, n, group, operand) ==
  IF filter.t # "obj" \/ filter.v = <<>> THEN Invalid
  ELSE IF Len(filter.v) > 1
  THEN LET each == ExpectedEach([i \in 1..Len(filter.v) |-> Obj(<<filter.v[i]>>)],
                                n, group, FALSE)
       IN [ok |-> each.ok,
           sql |-> IF group /\ operand THEN "(" \o Join(each.sqls, " AND ") \o ")"
                   ELSE Join(each.sqls, " AND "),
           binds |-> each.binds]
  ELSE LET left == filter.v[1][1]
           right == filter.v[1][2]
       IN IF IsBindableScalar(right) THEN Comparison(left, "=", right, n)
          ELSE IF left \in {"$and", "$or"} /\ right.t = "arr" /\ right.v # <<>>
          THEN LET each == ExpectedEach(right.v, n, group, TRUE)
               IN [ok |-> each.ok,
                   sql |-> "(" \o Join(each.sqls, LogicalSql(left)) \o ")",
                   binds |-> each.binds]
          ELSE IF /\ right.t = "obj"
                  /\ Len(right.v) = 1
                  /\ right.v[1][1] \in {"$eq", "$gt", "$lt", "$ge", "$le"}
                  /\ IsBindableScalar(right.v[1][2])
          THEN Comparison(left, ComparisonSql(right.v[1][1]), right.v[1][2], n)
          ELSE Invalid

\* The parse gave the expected text and bound the expected placeholders after
\* the ones allocated before.
CompiledAs(expected) ==
  /\ cq.status = "sql"
  /\ cq.sql = expected.sql
  /\ cq.parameters.params = cq.before.params \o expected.binds

IsLogical(filter) ==
  /\ filter.t = "obj"
  /\ Len(filter.v) = 1
  /\ filter.v[1][1] \in {"$and", "$or"}
  /\ filter.v[1][2].t = "arr"

IsMultiKey(filter) == filter.t = "obj" /\ Len(filter.v) > 1

(* C11: for every list of valid filter expressions a, b, ...: {$and: [a, b, *)
(* ...]} compiles to `((a) AND (b) ...)` and {$or: [a, b, ...]} to `((a) OR *)
(* (b) ...)`, recursively: the compilation of each operand appears as its   *)
(* own parenthesized group, in list order, and the whole is wrapped in      *)
(* parentheses; this holds for operands that are single-field, multi-key or *)
(* nested logical expressions.                                              *)
C11_LogicalCompiles ==
  (/\ cq.pc = "parsed"
   /\ IsLogical(cq.filter)
   /\ Expected(cq.filter, Allocated(cq.before) + 1, TRUE, FALSE).ok)
    => CompiledAs(Expected(cq.filter, Allocated(cq.before) + 1, TRUE, FALSE))

(* C11 amended: the same, except that a multi-key operand contributes its   *)
(* comparisons joined by AND without parentheses of its own around them.    *)
C11_LogicalCompilesAmended ==
  (/\ cq.pc = "parsed"
   /\ IsLogical(cq.filter)
   /\ Expected(cq.filter, Allocated(cq.before) + 1, FALSE, FALSE).ok)
    => CompiledAs(Expected(cq.filter, Allocated(cq.before) + 1, FALSE, FALSE))

\* An $or of a multi-key operand and a nested $or was compiled after an
\* earlier allocation.
C11_Witness ==
  /\ cq.pc = "parsed"
  /\ cq.filter = Implicit("$or", Arr(<<
                   Obj(<<<<"a", Num(0)>>, <<"b", Str(<<"x">>)>>>>),
                   Implicit("$or", Arr(<<Implicit("a", Num(-5)),
                                         Binary("b", "$le", Num(10))>>))>>))
  /\ Allocated(cq.before) = 1
  /\ cq.status = "sql"

(* C12: a filter object with more than one key k1..kn compiles to the      *)
(* compilations of {k1: v1}, ..., {kn: vn} joined by ` AND ` in the         *)
(* object's key order, with placeholders numbered in that same order; e.g.  *)
(* {a: 1, b: 2} compiles to `(a = $p1) AND (b = $p2)` with $p1 = 1 and      *)
(* $p2 = 2.                                                                 *)
C12_MultiKeyCompiles ==
  (/\ cq.pc = "parsed"
   /\ IsMultiKey(cq.filter)
   /\ Expected(cq.filter, Allocated(cq.before) + 1, FALSE, FALSE).ok)
    => CompiledAs(Expected(cq.filter, Allocated(cq.before) + 1, FALSE, FALSE))

\* {a: 1, b: 'x'} was compiled by a fresh binder to two comparisons.
C12_Witness ==
  /\ cq.pc = "parsed"
  /\ cq.filter = Obj(<<<<"a", Num(10)>>, <<"b", Str(<<"x">>)>>>>)
  /\ cq.before = NewParameters
  /\ cq.sql = "(a = $p1) AND (b = $p2)"
  /\ cq.parameters.params = <<<<"$p1", Num(10)>>, <<"$p2", Str(<<"x">>)>>>>

(* C13: compile fails with InvalidExpressionSyntax, and returns no SQL, for *)
(* every filter that has no valid interpretation: a field mapped to an      *)
(* object with two or more operator keys (e.g. {a: {$gt: 1, $lt: 5}}), a    *)
(* field mapped to an object with zero keys or with an unknown operator     *)
(* key, an empty filter object, and a field mapped to a value that is       *)
(* neither a number, a non-'$' string, nor an operator object (boolean,     *)
(* null, '$'-prefixed string).                                              *)
IsFieldMappedTo(filter, Accepts(_)) ==
  /\ filter.t = "obj"
  /\ Len(filter.v) = 1
  /\ filter.v[1][1] \in Fields
  /\ Accepts(filter.v[1][2])

SeveralOperatorKeys(v) == v.t = "obj" /\ Len(v.v) >= 2

NoKeys(v) == v.t = "obj" /\ v.v = <<>>

UnknownOperatorKey(v) ==
  /\ v.t = "obj"
  /\ Len(v.v) = 1
  /\ v.v[1][1] \notin {"$eq", "$gt", "$lt", "$ge", "$le"}

NotAValue(v) ==
  \/ v.t = "bool"
  \/ v = Null
  \/ v.t = "str" /\ v.v # <<>> /\ v.v[1] = "$"

HasNoInterpretation(filter) ==
  \/ IsFieldMappedTo(filter, SeveralOperatorKeys)
  \/ IsFieldMappedTo(filter, NoKeys)
  \/ IsFieldMappedTo(filter, UnknownOperatorKey)
  \/ filter = Obj(<<>>)
  \/ IsFieldMappedTo(filter, NotAValue)

C13_InvalidFiltersFail ==
  (cq.pc = "parsed" /\ HasNoInterpretation(cq.filter))
    => cq.status = "thrown" /\ cq.sql = "Invalid syntax"

\* {a: {$gt: 1, $lt: -0.5}} was rejected.
C13_Witness ==
  /\ cq.pc = "parsed"
  /\ cq.filter = Obj(<<<<"a", Obj(<<<<"$gt", Num(10)>>, <<"$lt", Num(-5)>>>>)>>>>)
  /\ cq.status = "thrown"

\* {a: '$x'} was rejected.
C13_DollarStringWitness ==
  /\ cq.pc = "parsed"
  /\ cq.filter = Implicit("a", Str(<<"$", "x">>))
  /\ cq.status = "thrown"

-----------------------------------------------------------------------------
(* BuildQuery: the clauses a query accumulates and its terminal operations. *)
(* The names of columns are SQL text.                                       *)

\* The fields the constructor sets (groupByColumns is not among them).
NewQuery ==
  [whereFilter |-> Null, limitCount |-> Num(0), offsetCount |-> Null,
   groupByColumns |-> Undefined, orderByColumns |-> <<>>]

\* What a clause call gives: the builder, or a thrown error.
Returned(query) == [status |-> "returned", error |-> "", query |-> query]

ClauseThrown(error, query) == [status |-> "thrown", error |-> error, query |-> query]

HasKey(pairs, key) == \E i \in 1..Len(pairs) : pairs[i][1] = key

PairValue(pairs, key) == pairs[CHOOSE i \in 1..Len(pairs) : pairs[i][1] = key][2]

SpreadPairs_firstWins(a, b) == a \o SelectSeq(b, LAMBDA pair : ~HasKey(a, pair[1]))

\* {...a, ...b} of two objects given as their pairs in key order: the keys of
\* a keep their places, the keys only b has follow.
SpreadPairs(a, b) ==
  [i \in 1..Len(a) |->
     IF HasKey(b, a[i][1]) THEN <<a[i][1], PairValue(b, a[i][1])>> ELSE a[i]]
  \o SelectSeq(b, LAMBDA pair : ~HasKey(a, pair[1]))

find(query, queryColumns) ==
  IF Len(Keys(queryColumns)) = 0
  THEN ClauseThrown("No columns specified for where clause", query)
  ELSE Returned([query EXCEPT !.whereFilter =
                   Obj(SpreadPairs(IF query.whereFilter = Null THEN <<>>
                                   ELSE query.whereFilter.v,
                                   queryColumns.v))])

groupBy(query, columns) == Returned([query EXCEPT !.groupByColumns = columns])

limit_acceptsZero(query, count) ==
  IF count.v < 0 THEN ClauseThrown("Invalid limit", query)
  ELSE Returned([query EXCEPT !.limitCount = count])

limit(query, count) ==
  IF count.v <= 0 THEN ClauseThrown("Invalid limit", query)
  ELSE Returned([query EXCEPT !.limitCount = count])

offset(query, count) ==
  IF count.v < 0 THEN ClauseThrown("Invalid offset", query)
  ELSE Returned([query EXCEPT !.offsetCount = count])

\* The characters of a string as text.
Text(chars) == Join(chars, "")

\* switch (column[keys[0]]): the direction, "" when it is none.
Direction(value) ==
  IF value.t = "str" /\ Text(value.v) \in {"asc", "ascending"} THEN "ASC"
  ELSE IF value.t = "str" /\ Text(value.v) \in {"desc", "descending"} THEN "DESC"
  ELSE IF value = Num(10) THEN "ASC"
  ELSE IF value = Num(-10) THEN "DESC"
  ELSE ""

\* One column of orderBy parsed: its text, "" when the parse throws.
OrderByColumn(column) ==
  IF column.t = "str" THEN Text(column.v)
  ELSE IF isObject(column) /\ Len(Keys(column)) = 1 /\ Direction(ValueAt(column, 1)) # ""
  THEN Keys(column)[1] \o " " \o Direction(ValueAt(column, 1))
  ELSE ""

orderBy(query, columns) ==
  IF \E i \in 1..Len(columns) : OrderByColumn(columns[i]) = ""
  THEN ClauseThrown("Invalid orderBy", query)
  ELSE Returned([query EXCEPT !.orderByColumns =
                   query.orderByColumns
                     \o [i \in 1..Len(columns) |-> OrderByColumn(columns[i])]])

\* _buildSqlWhere
_buildSqlWhere(expressionSql) ==
  IF expressionSql.status = "sql"
  THEN Sql("WHERE (" \o expressionSql.sql \o ")", expressionSql.parameters)
  ELSE Thrown("Invalid syntax", expressionSql.parameters)

\* The WHERE clause of a query on a new binder; no text without a filter.
WhereSql(query) ==
  IF query.whereFilter = Null THEN Sql("", NewParameters)
  ELSE _buildSqlWhere(_parseExpression(NewParameters, query.whereFilter))

\* _buildSqlQuery: the clauses as text and the binder; `where` is the WHERE
\* clause built before them, whose error is the error of the whole.
BuiltSqlQuery(query, where) ==
  [status |-> where.status,
   error |-> IF where.status = "thrown" THEN where.sql ELSE "",
   columns |-> "*",
   from |-> "FROM " \o TableName,
   where |-> IF where.status = "thrown" THEN "" ELSE where.sql,
   limit |-> IF query.limitCount.v > 0
             THEN "LIMIT " \o Text(NumToText(query.limitCount.v)) ELSE "",
   offset |-> IF query.offsetCount # Null /\ query.offsetCount.v > 0
              THEN "OFFSET " \o Text(NumToText(query.offsetCount.v)) ELSE "",
   groupBy |-> IF query.groupByColumns # Undefined
               THEN "GROUP BY " \o Join(query.groupByColumns.v, ", ") ELSE "",
   orderBy |-> IF Len(query.orderByColumns) > 0
               THEN "ORDER BY " \o Join(query.orderByColumns, ", ") ELSE "",
   parameters |-> where.parameters]

_buildSqlQuery(query) == BuiltSqlQuery(query, WhereSql(query))

\* What a terminal operation gives: a statement sent to the database with its
\* parameters, an error thrown to the caller, or a rejected promise.
Sent(sql, parameters) ==
  [status |-> "sent", error |-> "", sql |-> sql, params |-> parameters.params]

Failed(status, error) == [status |-> status, error |-> error, sql |-> "", params |-> <<>>]

\* The first of `clauses` that the built query carries, "" when it has none.
FirstClause(built, clauses) ==
  IF \A i \in 1..Len(clauses) : built[clauses[i]] = "" THEN ""
  ELSE clauses[CHOOSE i \in 1..Len(clauses) :
                 built[clauses[i]] # "" /\ \A j \in 1..(i - 1) : built[clauses[j]] = ""]

\* The checks of a terminal operation on the built query: the failure, or
\* the statement `sql` sent.
Checked(op, failure, built, clauses, sql) ==
  IF built.status = "thrown" THEN Failed(failure, built.error)
  ELSE IF FirstClause(built, clauses) # ""
  THEN Failed(failure, "Invalid " \o op \o " with " \o FirstClause(built, clauses))
  ELSE Sent(sql, built.parameters)

_buildSelectQuery(built) ==
  "SELECT " \o built.columns \o " " \o built.from \o " " \o built.where \o " "
    \o built.groupBy \o " " \o built.orderBy \o " " \o built.limit \o " "
    \o built.offset \o ";"

\* all, get, each: the SELECT statement of the query.
select(built) == Checked("select", "thrown", built, <<>>, _buildSelectQuery(built))

remove(built) ==
  Checked("remove", "thrown", built, <<"groupBy", "limit", "offset", "orderBy">>,
          "DELETE " \o built.from \o " " \o built.where)

count_forbidsGroupBy(built) ==
  Checked("count", "rejected", built, <<"groupBy", "limit", "offset", "orderBy">>,
          "SELECT COUNT(*) as count FROM " \o TableName \o " " \o built.where
            \o " " \o built.groupBy)

count(built) ==
  Checked("count", "rejected", built, <<"limit", "offset", "orderBy">>,
          "SELECT COUNT(*) as count FROM " \o TableName \o " " \o built.where
            \o " " \o built.groupBy)

RECURSIVE SetColumns(_, _, _)
\* The loop of update over newValues from pair i on: the SET list and the
\* binder, or the error addParam throws.
SetColumns(parameters, newValues, i) ==
  IF i > Len(newValues) THEN [ok |-> TRUE, error |-> "", sets |-> <<>>,
                              parameters |-> parameters]
  ELSE LET added == addParam(parameters, newValues[i][2])
       IN IF ~added.ok
          THEN [ok |-> FALSE, error |-> added.error, sets |-> <<>>,
                parameters |-> added.parameters]
          ELSE LET rest == SetColumns(added.parameters, newValues, i + 1)
               IN [rest EXCEPT !.sets =
                     <<newValues[i][1] \o " = " \o added.identifier>> \o rest.sets]

\* update after its checks passed: the UPDATE statement with the SET list.
UpdateSet(built, set) ==
  IF ~set.ok THEN Failed("rejected", set.error)
  ELSE Sent("UPDATE " \o TableName \o " SET " \o Join(set.sets, ", ") \o " "
              \o built.where,
            set.parameters)

\* update binding the new values on a binder of their own.
update_ownBinder(built, newValues) ==
  IF Checked("update", "rejected", built,
             <<"groupBy", "limit", "offset", "orderBy">>, "").status # "sent"
  THEN Checked("update", "rejected", built,
               <<"groupBy", "limit", "offset", "orderBy">>, "")
  ELSE UpdateSet(built, SetColumns(NewParameters, newValues, 1))

update(built, newValues) ==
  IF Checked("update", "rejected", built,
             <<"groupBy", "limit", "offset", "orderBy">>, "").status # "sent"
  THEN Checked("update", "rejected", built,
               <<"groupBy", "limit", "offset", "orderBy">>, "")
  ELSE UpdateSet(built, SetColumns(built.parameters, newValues, 1))

-----------------------------------------------------------------------------
(* SpecQuery: one BuildQuery on which clause calls and terminal operations *)
(* are made in any order.  cq holds the builder, the builder before the    *)
(* last call, and what the last call gave.                                 *)

MaxCount == 1

MaxOrderBy == 1

\* find: no key, one key, two keys, a key given again with another value, a
\* value no filter can hold.
FindArguments ==
  {Obj(<<>>), Obj(<<<<"a", Num(10)>>>>), Obj(<<<<"b", Str(<<"x">>)>>>>),
   Obj(<<<<"a", Num(0)>>, <<"b", Str(<<"x">>)>>>>), Obj(<<<<"b", Null>>>>)}

\* limit and offset: the whole numbers from -1 to MaxCount.
Counts == {Num(10 * n) : n \in -1..MaxCount}

GroupByArguments == {Arr(<<>>), Arr(<<"a">>)}

\* orderBy: nothing, a name, a name with a direction, an unknown direction.
OrderByArguments ==
  {Arr(<<>>), Arr(<<Str(<<"a">>)>>), Arr(<<Obj(<<<<"b", Num(-10)>>>>)>>),
   Arr(<<Obj(<<<<"b", Str(<<"u", "p">>)>>>>)>>)}

\* update: a number, a string, null, booleans, a Date, an object.
NewValues ==
  {Obj(<<<<"a", v>>>>) : v \in {Num(10), Str(<<"x">>), Null, Bool(TRUE), Bool(FALSE),
                                Date, Obj(<<>>)}}
  \cup {Obj(<<<<"a", Num(0)>>, <<"b", Null>>>>)}

ClauseCall(op, arg, result) ==
  /\ cq.pc = "query"
  /\ cq' = [pc |-> "query", query |-> result.query, before |-> cq.query,
            call |-> [op |-> op, arg |-> arg, status |-> result.status,
                      error |-> result.error, sql |-> "", params |-> <<>>],
            repeated |-> FALSE]
  /\ UNCHANGED <<tables, inTransaction, foreignKeysOn, last, rt, up, st>>

\* A terminal operation that empties the ordering it has written out.
TerminalCall_consumesOrderBy(op, arg, result) ==
  /\ cq.pc = "query"
  /\ cq' = [pc |-> "query", query |-> [cq.query EXCEPT !.orderByColumns = <<>>],
            before |-> cq.query,
            call |-> [op |-> op, arg |-> arg, status |-> result.status,
                      error |-> result.error, sql |-> result.sql,
                      params |-> result.params],
            repeated |-> cq.call.op = op /\ cq.call.arg = arg]
  /\ UNCHANGED <<tables, inTransaction, foreignKeysOn, last, rt, up, st>>

\* A terminal operation assigns no field of the builder (repeated: the call
\* before was the same operation with the same argument).
TerminalCall(op, arg, result) ==
  /\ cq.pc = "query"
  /\ cq' = [pc |-> "query", query |-> cq.query, before |-> cq.query,
            call |-> [op |-> op, arg |-> arg, status |-> result.status,
                      error |-> result.error, sql |-> result.sql,
                      params |-> result.params],
            repeated |-> cq.call.op = op /\ cq.call.arg = arg]
  /\ UNCHANGED <<tables, inTransaction, foreignKeysOn, last, rt, up, st>>

QueryFind ==
  \E queryColumns \in FindArguments :
    ClauseCall("find", queryColumns, find(cq.query, queryColumns))

QueryGroupBy ==
  \E columns \in GroupByArguments :
    ClauseCall("groupBy", columns, groupBy(cq.query, columns))

QueryLimit == \E n \in Counts : ClauseCall("limit", n, limit(cq.query, n))

QueryOffset == \E n \in Counts : ClauseCall("offset", n, offset(cq.query, n))

QueryOrderBy ==
  \E columns \in OrderByArguments :
    /\ Len(cq.query.orderByColumns) + Len(columns.v) <= MaxOrderBy
    /\ ClauseCall("orderBy", columns, orderBy(cq.query, columns.v))

QuerySelect ==
  \E op \in {"all", "get", "each"} :
    TerminalCall(op, Null, select(_buildSqlQuery(cq.query)))

QueryRemove == TerminalCall("remove", Null, remove(_buildSqlQuery(cq.query)))

QueryCount == TerminalCall("count", Null, count(_buildSqlQuery(cq.query)))

QueryUpdate ==
  \E newValues \in NewValues :
    TerminalCall("update", newValues, update(_buildSqlQuery(cq.query), newValues.v))

\* buildQuery(): a builder on which nothing was called yet.
NewBuilder ==
  [pc |-> "query", query |-> NewQuery, before |-> NewQuery,
   call |-> [op |-> "new", arg |-> Null, status |-> "returned",
             error |-> "", sql |-> "", params |-> <<>>],
   repeated |-> FALSE]

InitQuery ==
  /\ tables = [name \in {TableName, BackupTableName} |-> NoTable]
  /\ inTransaction = FALSE
  /\ foreignKeysOn = FALSE
  /\ last = NoCall
  /\ st = Idle
  /\ rt = Idle
  /\ up = Idle
  /\ cq = NewBuilder

NextQuery ==
  \/ QueryFind
  \/ QueryGroupBy
  \/ QueryLimit
  \/ QueryOffset
  \/ QueryOrderBy
  \/ QuerySelect
  \/ QueryRemove
  \/ QueryCount
  \/ QueryUpdate

SpecQuery == InitQuery /\ [][NextQuery]_vars

-----------------------------------------------------------------------------
(* Claims about the parameter binder and the builder, on SpecQuery.        *)

\* The last call was update({a: v}) and passed the checks update makes of
\* the query before it binds the new values.
UpdatedWith(v) ==
  /\ cq.call.op = "update"
  /\ cq.call.arg = Obj(<<<<"a", v>>>>)
  /\ cq.call.error \notin {"Invalid syntax"}
                            \cup {"Invalid update with " \o clause :
                                    clause \in {"groupBy", "limit", "offset", "orderBy"}}

\* The UPDATE statement was sent with `bound` as the value of the last
\* placeholder.
SentBinding(bound) ==
  /\ cq.call.status = "sent"
  /\ cq.call.params # <<>>
  /\ cq.call.params[Len(cq.call.params)][2] = bound

(* C14: the Parameter Binder converts boolean values before binding them:  *)
(* addParam(true) binds 0 and addParam(false) binds 1.                     *)
C14_BooleansConverted ==
  /\ UpdatedWith(Bool(TRUE)) => SentBinding(Num(0))
  /\ UpdatedWith(Bool(FALSE)) => SentBinding(Num(10))

\* What the binder does with a boolean: it binds it as it is.
C14_BooleansBoundUnchanged ==
  \A b \in BOOLEAN : UpdatedWith(Bool(b)) => SentBinding(Bool(b))

(* C15: for values of JavaScript type object, addParam binds a Date        *)
(* instance as its UTC numeric timestamp, binds null unchanged (so         *)
(* update({col: null}) stores NULL), and fails with InvalidParameterType   *)
(* for every other object value; numbers and strings are bound unchanged.  *)
C15_NullAndScalarsBound ==
  /\ UpdatedWith(Null) => SentBinding(Null)
  /\ UpdatedWith(Obj(<<>>)) => cq.call.status = "rejected" /\ cq.call.error = "Invalid type"
  /\ UpdatedWith(Num(10)) => SentBinding(Num(10))
  /\ UpdatedWith(Str(<<"x">>)) => SentBinding(Str(<<"x">>))

C15_ObjectsBound ==
  /\ C15_NullAndScalarsBound
  /\ UpdatedWith(Date) => cq.call.status = "sent" /\ cq.call.error = ""

(* C16: limit(n) fails with InvalidLimit for every n <= 0 and is accepted  *)
(* for every n >= 1; offset(n) fails with InvalidOffset for every n < 0    *)
(* and is accepted for every n >= 0; a rejected limit or offset leaves the *)
(* builder's previously accumulated limit, offset and other clauses        *)
(* unchanged.                                                              *)
ClauseRejected(error) ==
  /\ cq.call.status = "thrown"
  /\ cq.call.error = error
  /\ cq.query = cq.before

C16_LimitOffsetValidated ==
  /\ cq.call.op = "limit" =>
       IF cq.call.arg.v <= 0 THEN ClauseRejected("Invalid limit")
       ELSE /\ cq.call.status = "returned"
            /\ cq.query = [cq.before EXCEPT !.limitCount = cq.call.arg]
  /\ cq.call.op = "offset" =>
       IF cq.call.arg.v < 0 THEN ClauseRejected("Invalid offset")
       ELSE /\ cq.call.status = "returned"
            /\ cq.query = [cq.before EXCEPT !.offsetCount = cq.call.arg]

\* limit(0) was rejected on a builder that held a filter, a limit, an offset,
\* a grouping and an ordering.
C16_Witness ==
  /\ cq.call.op = "limit"
  /\ cq.call.arg = Num(0)
  /\ cq.call.status = "thrown"
  /\ cq.before.whereFilter # Null
  /\ cq.before.limitCount = Num(10)
  /\ cq.before.offsetCount = Num(10)
  /\ cq.before.groupByColumns # Undefined
  /\ cq.before.orderByColumns # <<>>

(* C17: remove() and update() fail with InvalidQueryShape whenever the     *)
(* accumulated query carries any of groupBy, limit, offset or orderBy;     *)
(* count() fails whenever it carries limit, offset or orderBy but is       *)
(* accepted with groupBy; each of the three succeeds (sends its DELETE /   *)
(* UPDATE / SELECT COUNT) when none of its forbidden clauses has been set. *)
(* The filter is one that compiles and the new values are ones that can be *)
(* bound.                                                                  *)
ForbiddenClauses(op) ==
  IF op = "count" THEN {"limit", "offset", "orderBy"}
  ELSE {"groupBy", "limit", "offset", "orderBy"}

\* The clause has been set on the builder.
ClauseSet(query, clause) ==
  CASE clause = "groupBy" -> query.groupByColumns # Undefined
    [] clause = "limit" -> query.limitCount # Num(0)
    [] clause = "offset" -> query.offsetCount # Null
    [] clause = "orderBy" -> query.orderByColumns # <<>>

\* The clause has been set to something the statement would hold: an offset
\* of 0 is none.
ClauseCarried(query, clause) ==
  /\ ClauseSet(query, clause)
  /\ clause = "offset" => query.offsetCount # Num(0)

FilterCompiles(query) ==
  \/ query.whereFilter = Null
  \/ Expected(query.whereFilter, 1, FALSE, FALSE).ok

ExpectedWhere(query) ==
  IF query.whereFilter = Null THEN ""
  ELSE "WHERE (" \o Expected(query.whereFilter, 1, FALSE, FALSE).sql \o ")"

ValuesBindable(newValues) ==
  \A i \in 1..Len(newValues.v) : newValues.v[i][2].t \in {"num", "str", "null", "bool"}

\* The last call is a remove, update or count that the claim speaks of.
ShapeChecked(op) ==
  /\ cq.call.op = op
  /\ FilterCompiles(cq.query)
  /\ op = "update" => ValuesBindable(cq.call.arg)

\* The statement the operation is expected to send; of an UPDATE only the
\* part after the SET list.
SentStatement(op) ==
  /\ cq.call.status = "sent"
  /\ op = "remove" => cq.call.sql = "DELETE FROM " \o TableName \o " " \o ExpectedWhere(cq.query)
  /\ op = "count" =>
       cq.call.sql = "SELECT COUNT(*) as count FROM " \o TableName \o " "
                       \o ExpectedWhere(cq.query) \o " "
                       \o (IF cq.query.groupByColumns = Undefined THEN ""
                           ELSE "GROUP BY " \o Join(cq.query.groupByColumns.v, ", "))
  /\ op = "update" =>
       Len(cq.call.params) = (IF cq.query.whereFilter = Null THEN 0
                              ELSE Len(Expected(cq.query.whereFilter, 1, FALSE,
                                                FALSE).binds))
                             + Len(cq.call.arg.v)

ShapeRejected(op, Has(_, _)) ==
  /\ cq.call.status = (IF op = "remove" THEN "thrown" ELSE "rejected")
  /\ cq.call.sql = ""
  /\ \E clause \in ForbiddenClauses(op) :
       /\ Has(cq.query, clause)
       /\ cq.call.error = "Invalid " \o op \o " with " \o clause

QueryShape(Has(_, _)) ==
  \A op \in {"remove", "update", "count"} :
    ShapeChecked(op) =>
      IF \E clause \in ForbiddenClauses(op) : Has(cq.query, clause)
      THEN ShapeRejected(op, Has)
      ELSE SentStatement(op)

C17_QueryShape == QueryShape(ClauseSet)

(* C17 amended: the same with an offset counted only when it is greater    *)
(* than 0: after offset(0) the query carries no OFFSET clause, and remove, *)
(* update and count send their statement.                                  *)
C17_QueryShapeAmended == QueryShape(ClauseCarried)

\* count was sent with a GROUP BY clause, and remove was refused for it.
C17_Witness ==
  /\ cq.call.op = "count"
  /\ cq.call.status = "sent"
  /\ cq.query.groupByColumns = Arr(<<"a">>)
  /\ cq.query.whereFilter # Null
  /\ cq.query.offsetCount = Num(0)

C17_RemoveRefusedWitness ==
  /\ cq.call.op = "remove"
  /\ cq.call.status = "thrown"
  /\ cq.call.error = "Invalid remove with orderBy"

(* C18: find is additive: after find(f1), ..., find(fn) on one builder the *)
(* accumulated filter has the union of the top-level keys of f1..fn, each  *)
(* key holding the value given by the last call that supplied it, so       *)
(* find({a: x}).find({b: y}) selects the same rows as find({a: x, b: y});  *)
(* find with an empty object fails and leaves the accumulated filter       *)
(* unchanged.  Stated of each find call, from which the statement about n  *)
(* calls follows: the filter after the call has the keys it had and the    *)
(* keys of the argument, a key of the argument holding the value of the    *)
(* argument and any other key the value it had; and a SELECT of a builder  *)
(* holding only a filter is the SELECT of that filter, however many calls  *)
(* accumulated it.                                                         *)
PairsOf(filter) == IF filter = Null THEN <<>> ELSE filter.v

KeysOf(filter) == {PairsOf(filter)[i][1] : i \in 1..Len(PairsOf(filter))}

FindMerged ==
  /\ cq.call.status = "returned"
  /\ KeysOf(cq.query.whereFilter) = KeysOf(cq.before.whereFilter) \cup KeysOf(cq.call.arg)
  /\ Len(PairsOf(cq.query.whereFilter)) = Cardinality(KeysOf(cq.query.whereFilter))
  /\ \A key \in KeysOf(cq.query.whereFilter) :
       PairValue(cq.query.whereFilter.v, key)
         = IF key \in KeysOf(cq.call.arg) THEN PairValue(cq.call.arg.v, key)
           ELSE PairValue(cq.before.whereFilter.v, key)
  /\ cq.query = [cq.before EXCEPT !.whereFilter = cq.query.whereFilter]

SelectsAccumulatedFilter ==
  (/\ cq.call.op \in {"all", "get", "each"}
   /\ cq.query.whereFilter # Null
   /\ cq.query = [NewQuery EXCEPT !.whereFilter = cq.query.whereFilter]
   /\ FilterCompiles(cq.query))
    => /\ cq.call.status = "sent"
       /\ cq.call.sql = "SELECT * FROM " \o TableName \o " " \o ExpectedWhere(cq.query)
                          \o "    ;"
       /\ cq.call.params = Expected(cq.query.whereFilter, 1, FALSE, FALSE).binds

C18_FindIsAdditive ==
  /\ cq.call.op = "find" =>
       IF KeysOf(cq.call.arg) = {}
       THEN ClauseRejected("No columns specified for where clause")
       ELSE FindMerged
  /\ SelectsAccumulatedFilter

\* find({a: 0, b: 'x'}) on a builder whose filter was {b: null, a: 1}: both
\* keys took the new values.
C18_Witness ==
  /\ cq.call.op = "find"
  /\ cq.call.arg = Obj(<<<<"a", Num(0)>>, <<"b", Str(<<"x">>)>>>>)
  /\ cq.before.whereFilter = Obj(<<<<"b", Null>>, <<"a", Num(10)>>>>)
  /\ cq.query.whereFilter = Obj(<<<<"b", Str(<<"x">>)>>, <<"a", Num(0)>>>>)

\* get() after find({a: 1}).find({b: 'x'}) sent the SELECT of {a: 1, b: 'x'}.
C18_SelectWitness ==
  /\ cq.call.op = "get"
  /\ cq.call.sql = "SELECT * FROM testtable WHERE ((a = $p1) AND (b = $p2))    ;"
  /\ cq.call.params = <<<<"$p1", Num(10)>>, <<"$p2", Str(<<"x">>)>>>>

-----------------------------------------------------------------------------
(* C19: with identical column definitions, schemaMatches is a total        *)
(* decision on foreign keys: it reports equal exactly when the introspected *)
(* and declared foreign-key lists have the same length and every            *)
(* introspected foreign key has a declared one with the same `from` column  *)
(* and the same target table and column; in every other case, including     *)
(* same-length lists where an introspected `from` has no declared           *)
(* counterpart, it reports divergence (createOrUpdateTable migrates,        *)
(* createTableIfNotExists fails with SchemaMismatch).  On Spec.             *)
SameColumns(table, schema) ==
  /\ SeqToSet(ColumnNames(table.columns)) = SeqToSet(ColumnNames(schema.columns))
  /\ \A i \in 1..Len(schema.columns) :
       /\ ColumnNamed(table.columns, schema.columns[i].name).type = schema.columns[i].type
       /\ ColumnNamed(table.columns, schema.columns[i].name).notnull
            = (schema.columns[i].notNull /\ ~schema.columns[i].primaryKey)
       /\ ColumnValue(EngineDefaultValue(
            ColumnNamed(table.columns, schema.columns[i].name).dflt_value))
            = DeclaredDefault(schema.columns[i])

\* The declared foreign key of the same `from` column and target.
HasDeclared(stored, schema) ==
  \E i \in 1..Len(schema.foreignKeys) :
    /\ schema.foreignKeys[i].from = stored.from
    /\ schema.foreignKeys[i].references.table = stored.table
    /\ schema.foreignKeys[i].references.field = stored.to

ForeignKeysEqual(table, schema) ==
  /\ Len(table.foreignKeys) = Len(schema.foreignKeys)
  /\ \A i \in 1..Len(table.foreignKeys) : HasDeclared(table.foreignKeys[i], schema)

\* The last call compared a declaration with a table of the same columns.
ComparedForeignKeys ==
  /\ last.op \in {"createTableIfNotExists", "createOrUpdateTable"}
  /\ last.op = "createOrUpdateTable" => ~last.before.foreignKeysOn
  /\ TableBefore.exists
  /\ SameColumns(TableBefore, last.schema)

ReportedEqual ==
  IF last.op = "createTableIfNotExists"
  THEN ResolvedWith({<<"wasCreated", FALSE>>})
  ELSE ResolvedWith({<<"wasCreated", FALSE>>, <<"wasUpdated", FALSE>>})

ReportedDivergent ==
  IF last.op = "createTableIfNotExists"
  THEN RejectedWith("SchemaMismatch")
  ELSE ResolvedWith({<<"wasCreated", FALSE>>, <<"wasUpdated", TRUE>>})

C19_ForeignKeysDecided ==
  ComparedForeignKeys =>
    IF ForeignKeysEqual(TableBefore, last.schema) THEN ReportedEqual
    ELSE ReportedDivergent

\* Each stored foreign key has a declared one on the same column, or the
\* lists differ in length.
EveryFromDeclared ==
  \/ Len(TableBefore.foreignKeys) # Len(last.schema.foreignKeys)
  \/ \A i \in 1..Len(TableBefore.foreignKeys) :
       FindForeignKey(last.schema.foreignKeys, TableBefore.foreignKeys[i].from) # 0

\* The decision where it is made: every case but the one of a stored `from`
\* column without a declared counterpart in lists of the same length.
C19_ForeignKeysDecidedWhenFound ==
  (ComparedForeignKeys /\ EveryFromDeclared) => C19_ForeignKeysDecided

-----------------------------------------------------------------------------
(* SpecMatch: a table created from one schema and compared with another,   *)
(* the two differing in the primaryKey and notNull flags of their columns. *)
(* rt holds the two schemas and the results of the comparisons.            *)

FlaggedColumn(name, type, primaryKey, notNull) ==
  [name |-> name, type |-> type, unique |-> FALSE, primaryKey |-> primaryKey,
   notNull |-> notNull, defaultValue |-> NoDefault]

\* id INTEGER and value TEXT with each choice of the flags: id a primary key
\* or not, each column not null or not.
FlaggedSchemas ==
  {Schema(<<FlaggedColumn("id", "INTEGER", primaryKey, idNotNull),
            FlaggedColumn("value", "TEXT", FALSE, valueNotNull)>>, <<>>) :
     primaryKey \in BOOLEAN, idNotNull \in BOOLEAN, valueNotNull \in BOOLEAN}

\* The schema with the notNull flag of its primary-key columns inverted.
ToggleNotNull(schema) ==
  [schema EXCEPT !.columns =
     [i \in 1..Len(schema.columns) |->
        IF schema.columns[i].primaryKey
        THEN [schema.columns[i] EXCEPT !.notNull = ~schema.columns[i].notNull]
        ELSE schema.columns[i]]]

\* createTable of the stored schema.
CreateStored ==
  /\ rt.pc = "schemas"
  /\ \E result \in {createTable(Db, rt.stored)} :
       /\ tables' = result.tables
       /\ rt' = [rt EXCEPT !.pc = IF result.status = "resolved" THEN "created"
                                  ELSE "rejected"]
  /\ UNCHANGED <<inTransaction, foreignKeysOn, last, up, cq, st>>

\* schemaMatchesDatabase of a Table declared with the other schema.
MatchDeclared ==
  /\ rt.pc = "created"
  /\ rt' = [pc |-> "matched", stored |-> rt.stored, declared |-> rt.declared,
            match |-> SchemaMatchesDatabase(
                        rt.declared, GetSchemaFromDatabase(tables[TableName]))]
  /\ UNCHANGED <<tables, inTransaction, foreignKeysOn, last, up, cq, st>>

\* The same of a Table declared with the flag inverted.
MatchToggled ==
  /\ rt.pc = "matched"
  /\ rt' = [pc |-> "toggled", stored |-> rt.stored, declared |-> rt.declared,
            match |-> rt.match,
            toggled |-> SchemaMatchesDatabase(
                          ToggleNotNull(rt.declared),
                          GetSchemaFromDatabase(tables[TableName]))]
  /\ UNCHANGED <<tables, inTransaction, foreignKeysOn, last, up, cq, st>>

InitMatch ==
  /\ tables = [name \in {TableName, BackupTableName} |-> NoTable]
  /\ inTransaction = FALSE
  /\ foreignKeysOn = FALSE
  /\ last = NoCall
  /\ rt \in {[pc |-> "schemas", stored |-> stored, declared |-> declared] :
               stored \in FlaggedSchemas, declared \in FlaggedSchemas}
  /\ st = Idle
  /\ up = Idle
  /\ cq = Idle

NextMatch == CreateStored \/ MatchDeclared \/ MatchToggled

SpecMatch == InitMatch /\ [][NextMatch]_vars

(* C20: in schemaMatches a declared primary-key column is compared as      *)
(* not-null regardless of its declared notNull flag: toggling notNull on a *)
(* declared primaryKey column never changes the comparison result, and     *)
(* such a column matches an introspected column that the database reports  *)
(* as NOT NULL.                                                            *)
DeclaredId == ColumnNamed(rt.declared.columns, "id")

StoredId == ColumnNamed(tables[TableName].columns, "id")

\* The comparisons were made of a declaration whose id is the primary key,
\* with a table that differs from it in the id column at most.
ComparedPrimaryKey ==
  /\ rt.pc = "toggled"
  /\ DeclaredId.primaryKey
  /\ ColumnNamed(tables[TableName].columns, "value").notnull
       = ColumnNamed(rt.declared.columns, "value").notNull

ToggleChangesNothing ==
  (rt.pc = "toggled" /\ DeclaredId.primaryKey) => rt.toggled = rt.match

C20_PrimaryKeyIsNotNull ==
  /\ ToggleChangesNothing
  /\ (ComparedPrimaryKey /\ StoredId.notnull) => rt.match = "match"

(* C20 amended: a declared primary-key column is compared as nullable      *)
(* regardless of its declared notNull flag: toggling the flag never        *)
(* changes the result, the column matches an introspected column that the  *)
(* database reports as nullable (which is how it reports a column created  *)
(* as PRIMARY KEY from a declaration), and it differs from one reported as *)
(* NOT NULL.                                                               *)
C20_PrimaryKeyIsNullable ==
  /\ ToggleChangesNothing
  /\ ComparedPrimaryKey => (rt.match = "match" <=> ~StoredId.notnull)

\* A declared primary key flagged notNull was compared with the table made
\* from the same declaration, and with a table whose id is NOT NULL.
C20_Witness ==
  /\ ComparedPrimaryKey
  /\ DeclaredId.notNull
  /\ rt.stored = rt.declared
  /\ rt.match = "match"

C20_NotNullWitness ==
  /\ ComparedPrimaryKey
  /\ StoredId.notnull
  /\ rt.match = "differ"

-----------------------------------------------------------------------------
(* The retry of insertUpdateUnique.  A call lists the errors its attempts  *)
(* ended with (failures) and counts the lookups the engine answered and    *)
(* the write statements it ran for the call.                                *)

UniqueViolation == "UNIQUE constraint failed"

RetriedOnce(call) ==
  /\ call.attempt = 2
  /\ call.pc = "get" => call.lookups = 1
  /\ call.pc # "get" => call.lookups = 2

RejectedAtOnce(call) ==
  /\ call.pc = "rejected"
  /\ call.error = call.failures[1]
  /\ Len(call.failures) = 1
  /\ call.attempt = 1
  /\ call.lookups = 1
  /\ call.writes <= 1

\* C21: insertUpdateUnique retries at most once.  After a write that failed
\* with a uniqueness violation the call looks the row up again and attempts
\* one more insert or update; if that attempt fails too the call rejects with
\* its error; any other error rejects the call without a retry.  A call never
\* has more than two lookups and two write statements run.
C21_RetriesAtMostOnce ==
  \A c \in Calls :
    /\ up.calls[c].lookups <= 2
    /\ up.calls[c].writes <= 2
    /\ Len(up.calls[c].failures) <= 2
    /\ (up.calls[c].failures # <<>> /\ up.calls[c].failures[1] = UniqueViolation)
         => RetriedOnce(up.calls[c])
    /\ (up.calls[c].failures # <<>> /\ up.calls[c].failures[1] # UniqueViolation)
         => RejectedAtOnce(up.calls[c])
    /\ Len(up.calls[c].failures) = 2
         => up.calls[c].pc = "rejected" /\ up.calls[c].error = up.calls[c].failures[2]
    /\ up.calls[c].pc = "rejected"
         => /\ up.calls[c].failures # <<>>
            /\ up.calls[c].error = up.calls[c].failures[Len(up.calls[c].failures)]
    /\ up.calls[c].pc = "resolved" => Len(up.calls[c].failures) <= 1

\* A call lost the insert, looked the row up again and updated it.
C21_Witness ==
  \E c \in Calls :
    /\ up.calls[c].pc = "resolved"
    /\ up.calls[c].failures = <<UniqueViolation>>
    /\ up.calls[c].lookups = 2
    /\ up.calls[c].writes = 2

\* The second attempt of a call failed too.
C21_SecondFailureWitness ==
  \E c \in Calls :
    /\ up.calls[c].pc = "rejected"
    /\ Len(up.calls[c].failures) = 2
    /\ up.calls[c].failures[1] = UniqueViolation

\* A call failed with another error and was not retried.
C21_OtherErrorWitness ==
  \E c \in Calls :
    /\ up.calls[c].pc = "rejected"
    /\ up.calls[c].failures = <<"Invalid syntax">>
    /\ up.calls[c].attempt = 1

-----------------------------------------------------------------------------
(* The update path of insertUpdateUnique: the row its last lookup found    *)
(* (oldRow), the rows its write found (prior) and left (after).            *)

TookUpdatePath(call) == call.pc \in Finished /\ call.oldRow # Undefined

\* The rows of `rows` whose primary key is the one of the row found.
RowsOfOldRow(call, rows) ==
  {i \in 1..Len(rows) : ColumnValue(rows[i][PrimaryKeyName]) = call.oldRow[PrimaryKeyName]}

UpdatedByPrimaryKey(call) ==
  /\ call.pc = "resolved"
  /\ call.result = Spread(call.oldRow, ObjectOf(call.row))
  /\ Len(call.after) = Len(call.prior)
  /\ Cardinality(RowsOfOldRow(call, call.prior)) = 1
  /\ \A i \in 1..Len(call.prior) :
       IF i \in RowsOfOldRow(call, call.prior)
       THEN \A key \in DOMAIN call.after[i] :
              ColumnValue(call.after[i][key])
                = Spread(ReadRow(call.prior[i]), ObjectOf(call.row))[key]
       ELSE call.after[i] = call.prior[i]

\* C22: on the update path insertUpdateUnique selects the row by the value
\* of the declared primary-key column, whatever its name: when the lookup
\* found a row, the UPDATE changes exactly the row with that primary-key
\* value and the call resolves to the stored row merged with the new one.
C22_UpdatesByPrimaryKey ==
  \A c \in Calls : TookUpdatePath(up.calls[c]) => UpdatedByPrimaryKey(up.calls[c])

\* The same on the tables whose primary key is named id.
C22_UpdatesById ==
  \A c \in Calls :
    (TookUpdatePath(up.calls[c]) /\ PrimaryKeyName = "id")
      => UpdatedByPrimaryKey(up.calls[c])

\* A call updated a stored row of such a table.
C22_UpdatedWitness ==
  \E c \in Calls :
    /\ TookUpdatePath(up.calls[c])
    /\ PrimaryKeyName = "id"
    /\ up.calls[c].pc = "resolved"
    /\ up.calls[c].after # up.calls[c].prior

-----------------------------------------------------------------------------
(* The placeholders of one terminal call, on SpecQuery.                    *)

\* The k-th bound value has the name $pk.
NumberedFromOne(params) ==
  \A i \in 1..Len(params) : params[i][1] = "$p" \o ToString(i)

\* The values the filter of the query binds.
WhereBinds(query) ==
  IF query.whereFilter = Null THEN <<>>
  ELSE Expected(query.whereFilter, 1, FALSE, FALSE).binds

\* The SET list of update(newValues) after k values bound by the filter.
ExpectedSet(newValues, k) ==
  Join([j \in 1..Len(newValues) |-> newValues[j][1] \o " = $p" \o ToString(k + j)], ", ")

UpdateNumbered ==
  /\ Len(cq.call.params) = Len(WhereBinds(cq.query)) + Len(cq.call.arg.v)
  /\ SubSeq(cq.call.params, 1, Len(WhereBinds(cq.query))) = WhereBinds(cq.query)
  /\ cq.call.sql = "UPDATE " \o TableName \o " SET "
                     \o ExpectedSet(cq.call.arg.v, Len(WhereBinds(cq.query)))
                     \o " " \o ExpectedWhere(cq.query)

\* C23: within one terminal call no placeholder name is bound twice: the k
\* bound values have the names $p1..$pk in allocation order, starting at 1
\* in every call; update(newValues) on a filter that binds k values uses
\* $p1..$pk in WHERE and $p(k+1)..$p(k+m) in SET, in the key order of
\* newValues.
C23_PlaceholdersNumbered ==
  cq.call.status = "sent" =>
    /\ NumberedFromOne(cq.call.params)
    /\ cq.call.op = "update" => UpdateNumbered
    /\ cq.call.op # "update" => cq.call.params = WhereBinds(cq.query)

\* update({a: 0, b: null}) was sent on a filter that binds two values.
C23_Witness ==
  /\ cq.call.op = "update"
  /\ cq.call.status = "sent"
  /\ Len(WhereBinds(cq.query)) = 2
  /\ cq.call.arg = Obj(<<<<"a", Num(0)>>, <<"b", Null>>>>)
  /\ cq.call.sql = "UPDATE testtable SET a = $p3, b = $p4 WHERE ((a = $p1) AND (b = $p2))"

-----------------------------------------------------------------------------
(* When limit, offset and orderBy check their argument, on SpecQuery.      *)

InvalidClauseArgument ==
  \/ cq.call.op = "limit" /\ cq.call.arg.v <= 0
  \/ cq.call.op = "offset" /\ cq.call.arg.v < 0
  \/ /\ cq.call.op = "orderBy"
     /\ \E i \in 1..Len(cq.call.arg.v) : OrderByColumn(cq.call.arg.v[i]) = ""

\* C24: the rules of limit, offset and orderBy are enforced when a terminal
\* operation is called, not when the clause is: a clause call with an
\* invalid argument returns the builder, and no clause call raises the
\* failure.
C24_ValidatedAtTerminalCall ==
  cq.call.op \in {"limit", "offset", "orderBy"} => cq.call.status = "returned"

\* What the builder does: the clause call itself throws and the builder
\* stays as it was, so a terminal operation never meets an invalid clause.
C24_ValidatedAtClauseCall ==
  /\ InvalidClauseArgument => cq.call.status = "thrown" /\ cq.query = cq.before
  /\ cq.query.limitCount.v >= 0
  /\ cq.query.offsetCount # Null => cq.query.offsetCount.v >= 0
  /\ \A i \in 1..Len(cq.query.orderByColumns) : cq.query.orderByColumns[i] # ""

-----------------------------------------------------------------------------
(* SqlReadStream and SqlWriteStream.  A statement yields the rows 1..n; a  *)
(* row is its number and the null pushed at the end of the stream is 0.    *)
(* Of the Readable the stream extends the model keeps what its contract    *)
(* gives: _read is called again only after a push, never after the push of *)
(* null; 'end' is emitted once, after null was pushed.                      *)

MaxStreamRows == 4

MaxChunk == 3

Min(a, b) == IF a < b THEN a ELSE b

\* Db.prepare: the statement, which Db.prepare itself finalizes when the
\* preparation failed.
prepare(n, prepared) ==
  [prepared |-> prepared, rows |-> n, position |-> 0, inFlight |-> 0,
   finalized |-> IF prepared THEN 0 ELSE 1]

\* The constructor of SqlReadStream.
SqlReadStream(readChunkSize, finalizeStatement, statement, faulty) ==
  [kind |-> "read", readChunkSize |-> readChunkSize,
   finalizeStatement |-> finalizeStatement, statement |-> statement,
   faulty |-> faulty, asyncFetch |-> "null", then |-> "none",
   hasError |-> FALSE, hasBeenDestroyed |-> FALSE, endOfData |-> FALSE,
   rows |-> Null, currentRow |-> 0,
   reading |-> FALSE, pushed |-> <<>>, ended |-> FALSE, pushedAfterEnd |-> FALSE,
   errorScheduled |-> FALSE, errorEmitted |-> 0, endEmitted |-> 0,
   merged |-> FALSE]

\* destroy: once, and the statement is finalized if the stream owns it and
\* statementPromise resolved.
destroy(s) ==
  IF s.hasBeenDestroyed THEN s
  ELSE [s EXCEPT !.hasBeenDestroyed = TRUE,
                 !.statement.finalized =
                    IF s.finalizeStatement /\ s.statement.prepared THEN @ + 1 ELSE @]

\* _asyncFetchChunk: the fetch in progress, nothing at the end of the data,
\* or a new fetch, which a rejected statementPromise rejects at once.
_asyncFetchChunk(s) ==
  IF s.asyncFetch # "null" \/ s.endOfData THEN s
  ELSE IF ~s.statement.prepared THEN [s EXCEPT !.asyncFetch = "rejected"]
  ELSE [s EXCEPT !.asyncFetch = "pending", !.statement.inFlight = @ + 1]

\* push of the Readable.
push(s, row) ==
  [s EXCEPT !.reading = FALSE,
            !.pushed = IF row = 0 THEN @ ELSE Append(@, row),
            !.ended = @ \/ row = 0,
            !.pushedAfterEnd = @ \/ s.ended]

RECURSIVE PushRows(_, _)
\* The loop of _read as far as it gets: j rows pushed.
PushRows(s, j) ==
  IF j = 0 THEN s
  ELSE PushRows([push(s, s.rows.v[s.currentRow + 1]) EXCEPT !.currentRow = @ + 1], j - 1)

\* Nothing left in the chunk.
ChunkProcessed(s) ==
  IF s.rows # Null /\ s.currentRow = Len(s.rows.v)
  THEN [s EXCEPT !.rows = Null, !.currentRow = 0]
  ELSE s

\* The callback _read chains to the fetch when it has no rows: it waits for
\* a fetch in progress, and runs, or its catch does, when there is none.
Chained(s) ==
  [s EXCEPT !.then = CASE s.asyncFetch = "pending" -> "waiting"
                       [] s.asyncFetch = "rejected" -> "catch"
                       [] OTHER -> "ready"]

\* _read, the push of its loop answering false at row j or the rows ending.
_read(s, j) ==
  IF s.hasError THEN s
  ELSE IF s.rows # Null THEN ChunkProcessed(PushRows(_asyncFetchChunk(s), j))
  ELSE Chained(_asyncFetchChunk(s))

\* The rows a fetch of readChunkSize rows gets from the statement.
Fetched(s) ==
  [i \in 1..Min(s.readChunkSize, s.statement.rows - s.statement.position) |->
     s.statement.position + i]

\* The extra null at the end of the stream.
EndOfData(s) ==
  IF Len(s.rows.v) < s.readChunkSize
  THEN [s EXCEPT !.endOfData = TRUE, !.rows = Arr(Append(s.rows.v, 0))]
  ELSE s

\* The fetch resolved: the second `then` of _asyncFetchChunk (merged: some
\* chunk arrived while rows of the chunk before were pending).
FetchResolved(s, rows) ==
  EndOfData([s EXCEPT !.asyncFetch = "null",
                      !.statement.inFlight = @ - 1,
                      !.statement.position = @ + Len(rows),
                      !.rows = IF s.rows # Null THEN Arr(s.rows.v \o rows) ELSE Arr(rows),
                      !.merged = @ \/ s.rows # Null,
                      !.then = IF @ = "waiting" THEN "ready" ELSE @])

\* The fetch rejected: asyncFetch keeps the rejected promise.
FetchRejected(s) ==
  [s EXCEPT !.asyncFetch = "rejected",
            !.statement.inFlight = @ - 1,
            !.then = IF @ = "waiting" THEN "catch" ELSE @]

\* The catch of _read.
Caught(s) == [s EXCEPT !.then = "none", !.hasError = TRUE, !.errorScheduled = TRUE]

\* The callback of _read leaving currentRow where it is.
PushOne_keepsCurrentRow(s) ==
  IF s.then = "catch" \/ s.rows = Null THEN Caught(s)
  ELSE push(ChunkProcessed([s EXCEPT !.then = "none"]), s.rows.v[1])

\* The callback of _read: one row pushed, or the TypeError of rows[0] on no
\* rows, which its catch gets.
PushOne(s) ==
  IF s.then = "catch" \/ s.rows = Null THEN Caught(s)
  ELSE push(ChunkProcessed([s EXCEPT !.then = "none", !.currentRow = 1]), s.rows.v[1])

\* The constructor of SqlWriteStream.
SqlWriteStream(faulty) ==
  [kind |-> "write", faulty |-> faulty, insertStatementPromise |-> "null",
   statement |-> prepare(0, FALSE), state |-> "open", written |-> 0]

\* _createInsertStatement
_createInsertStatement(s, prepared) ==
  [s EXCEPT !.insertStatementPromise = IF prepared THEN "resolved" ELSE "rejected",
            !.statement = prepare(0, prepared)]

\* _writeRows of one row after the statement is there: the insert runs, or
\* the stream fails with the error of the preparation or of the insert.
RowWritten(s, ok) ==
  IF s.insertStatementPromise = "resolved" /\ ok
  THEN [s EXCEPT !.written = @ + 1]
  ELSE [s EXCEPT !.state = "failed"]

_writeRows(s, prepared, ok) ==
  IF s.insertStatementPromise = "null"
  THEN RowWritten(_createInsertStatement(s, prepared), ok)
  ELSE RowWritten(s, ok)

Outcomes(s) == IF s.faulty THEN BOOLEAN ELSE {TRUE}

\* The Readable calls _read.
StreamRead ==
  /\ st.kind = "read"
  /\ ~st.reading /\ ~st.ended /\ ~st.hasBeenDestroyed
  /\ \E j \in 1..(IF st.rows = Null \/ st.hasError THEN 1
                  ELSE Len(st.rows.v) - st.currentRow) :
       st' = _read([st EXCEPT !.reading = TRUE], j)
  /\ UNCHANGED <<tables, inTransaction, foreignKeysOn, last, rt, up, cq>>

\* The statement answers the fetch in progress.
StreamFetchDone ==
  /\ st.kind = "read"
  /\ st.asyncFetch = "pending"
  /\ \E ok \in Outcomes(st) :
       st' = IF ok THEN FetchResolved(st, Fetched(st)) ELSE FetchRejected(st)
  /\ UNCHANGED <<tables, inTransaction, foreignKeysOn, last, rt, up, cq>>

\* The callback chained by _read runs.
StreamThen ==
  /\ st.kind = "read"
  /\ st.then \in {"ready", "catch"}
  /\ st' = PushOne(st)
  /\ UNCHANGED <<tables, inTransaction, foreignKeysOn, last, rt, up, cq>>

\* process.nextTick(() => this.emit('error', err)), and the handler.
StreamEmitError ==
  /\ st.kind = "read"
  /\ st.errorScheduled
  /\ st' = destroy([st EXCEPT !.errorScheduled = FALSE, !.errorEmitted = @ + 1])
  /\ UNCHANGED <<tables, inTransaction, foreignKeysOn, last, rt, up, cq>>

\* The Readable emits 'end', and the handler.
StreamEmitEnd ==
  /\ st.kind = "read"
  /\ st.ended /\ st.endEmitted = 0
  /\ st' = destroy([st EXCEPT !.endEmitted = @ + 1])
  /\ UNCHANGED <<tables, inTransaction, foreignKeysOn, last, rt, up, cq>>

\* close()
StreamClose ==
  /\ st.kind = "read"
  /\ ~st.hasBeenDestroyed
  /\ st' = destroy(st)
  /\ UNCHANGED <<tables, inTransaction, foreignKeysOn, last, rt, up, cq>>

\* _write of one row.
StreamWrite ==
  /\ st.kind = "write"
  /\ st.state = "open"
  /\ st.written < MaxStreamRows
  /\ \E prepared \in Outcomes(st), ok \in Outcomes(st) :
       st' = _writeRows(st, prepared, ok)
  /\ UNCHANGED <<tables, inTransaction, foreignKeysOn, last, rt, up, cq>>

\* end() of the Writable: the stream finishes.
StreamEnd ==
  /\ st.kind = "write"
  /\ st.state = "open"
  /\ st' = [st EXCEPT !.state = "finished"]
  /\ UNCHANGED <<tables, inTransaction, foreignKeysOn, last, rt, up, cq>>

InitStream ==
  /\ tables = [name \in {TableName, BackupTableName} |-> NoTable]
  /\ inTransaction = FALSE
  /\ foreignKeysOn = FALSE
  /\ last = NoCall
  /\ rt = Idle
  /\ up = Idle
  /\ cq = Idle
  /\ st \in {SqlReadStream(readChunkSize, finalizeStatement, prepare(n, prepared), faulty) :
               readChunkSize \in 1..MaxChunk, finalizeStatement \in BOOLEAN,
               n \in 0..MaxStreamRows, prepared \in BOOLEAN, faulty \in BOOLEAN}
            \cup {SqlWriteStream(faulty) : faulty \in BOOLEAN}

NextStream ==
  \/ StreamRead
  \/ StreamFetchDone
  \/ StreamThen
  \/ StreamEmitError
  \/ StreamEmitEnd
  \/ StreamClose
  \/ StreamWrite
  \/ StreamEnd

SpecStream == InitStream /\ [][NextStream]_vars

-----------------------------------------------------------------------------
(* Claims about the streams, on SpecStream.                                *)

\* The stream has ended, failed or been closed.
StreamOver ==
  IF st.kind = "read"
  THEN st.endEmitted > 0 \/ st.errorEmitted > 0 \/ st.hasBeenDestroyed
  ELSE st.state \in {"finished", "failed"}

\* The stream created a statement or was given one to own.
OwnsStatement ==
  IF st.kind = "read" THEN st.finalizeStatement
  ELSE st.insertStatementPromise # "null"

\* C25: every prepared statement a stream creates or is given to own (the
\* SELECT statement of a SqlReadStream with the default finalizeStatement,
\* the INSERT statement a SqlWriteStream prepares) is finalized exactly once
\* by the time the stream has ended, failed or been closed: never twice and
\* never left unfinalized, on the success path and on the error path.
C25_FinalizedExactlyOnce ==
  OwnsStatement =>
    /\ st.statement.finalized <= 1
    /\ StreamOver => st.statement.finalized = 1

\* The same of the read stream alone.
C25_ReadStreamFinalizes ==
  (st.kind = "read" /\ OwnsStatement) =>
    /\ st.statement.finalized <= 1
    /\ StreamOver => st.statement.finalized = 1

\* A read stream ended after its last row and finalized its statement.
C25_ReadStreamWitness ==
  /\ st.kind = "read"
  /\ st.finalizeStatement
  /\ st.statement.prepared
  /\ st.endEmitted = 1
  /\ st.statement.finalized = 1

\* The rows pushed so far are the first rows of the statement, in order.
DeliveredInOrder ==
  /\ Len(st.pushed) <= st.statement.rows
  /\ \A i \in 1..Len(st.pushed) : st.pushed[i] = i

\* The stream can go on: _read can be called, a fetch is in progress or a
\* callback is due.
CanGoOn == ENABLED (StreamRead \/ StreamFetchDone \/ StreamThen)

Sound == st.statement.prepared /\ ~st.faulty

\* C29: for a statement that yields r1..rn, any chunk size >= 1 and any
\* pattern of backpressure, the read stream delivers exactly r1..rn in
\* order, each once, then signals end once; no row is skipped or duplicated
\* when a prefetched chunk arrives while rows of the chunk before are
\* pending; at most one fetch is in progress at any time.
C29_RowsDeliveredInOrder ==
  st.kind = "read" =>
    /\ DeliveredInOrder
    /\ st.ended => Len(st.pushed) = st.statement.rows \/ ~Sound
    /\ ~st.pushedAfterEnd
    /\ st.endEmitted <= 1
    /\ st.statement.inFlight <= 1
    /\ Sound => ~st.hasError
    /\ (Sound /\ ~st.hasBeenDestroyed /\ ~st.ended) => CanGoOn

\* Four rows in chunks of three, a chunk arrived while rows were pending,
\* and the stream ended.
C29_Witness ==
  /\ st.kind = "read"
  /\ Sound
  /\ st.statement.rows = 4
  /\ st.readChunkSize = 3
  /\ st.merged
  /\ st.pushed = <<1, 2, 3, 4>>
  /\ st.endEmitted = 1

-----------------------------------------------------------------------------
(* Terminal operations and the builder, on SpecQuery.                      *)

TerminalOperations == {"all", "get", "each", "count", "remove", "update"}

\* The step is a terminal call.
TerminalStep == cq'.call.op \in TerminalOperations /\ cq'.before = cq.query

\* The step repeats the terminal call before it.
RepeatedStep ==
  /\ TerminalStep
  /\ cq.call.op = cq'.call.op
  /\ cq.call.arg = cq'.call.arg

\* C27: terminal operations never modify the builder: the clauses on the
\* builder are the same before and after every terminal call, and a terminal
\* operation invoked twice with no clause call in between sends the same SQL
\* text and the same parameters, numbered from $p1, both times.
C27_TerminalCallsLeaveBuilder ==
  [][/\ TerminalStep => cq'.query = cq.query
     /\ RepeatedStep => cq'.call = cq.call /\ NumberedFromOne(cq'.call.params)]_vars

\* update({a: 0, b: null}) was sent a second time on a builder that holds a
\* filter, and count a second time on one that holds a grouping.
C27_Witness ==
  /\ cq.repeated
  /\ cq.call.op = "update"
  /\ cq.call.status = "sent"
  /\ cq.call.params # <<>>
  /\ cq.query.whereFilter # Null
  /\ cq.query = cq.before

C27_SelectWitness ==
  /\ cq.repeated
  /\ cq.call.op = "all"
  /\ cq.call.status = "sent"
  /\ cq.query.orderByColumns # <<>>
  /\ cq.query.groupByColumns # Undefined

-----------------------------------------------------------------------------
(* SpecSchema: the Table calls on schemas that use the optional parts of   *)
(* a declaration: column flags (unique, collate, index), an `indices` map, *)
(* foreign keys given with arrays, and declarations _createTableSql        *)
(* rejects.                                                                *)

\* `object` with the property `key` set to `value`.
With(object, key, value) == (key :> value) @@ object

TextColumn == ValueColumn("TEXT")

\* {from: ['value'], references: {parent: 'id'}}
ForeignKeyFromArray == With(ForeignKey("value", "parent"), "fromIsArray", TRUE)

\* {from: 'value', references: {parent: ['id']}}
ForeignKeyToArray ==
  [from |-> "value",
   references |-> With(ForeignKey("value", "parent").references, "fieldIsArray", TRUE)]

\* {from: 'value', references: {parent: 'id', other: 'id'}}
ForeignKeyToTwoTables ==
  [from |-> "value",
   references |-> With(ForeignKey("value", "parent").references, "otherTable", "other")]

\* indices: {byValue: {columns: [column]}}
Indices(column) == <<<<"byValue", [columns |-> <<column>>]>>>>

FlaggedColumns ==
  {With(TextColumn, "unique", TRUE),
   With(TextColumn, "collate", "NOCASE"),
   With(TextColumn, "index", TRUE),
   With(With(TextColumn, "index", TRUE), "collate", "NOCASE")}

DeclaredSchemas ==
  {Schema(<<IdColumn>>, <<>>),
   Schema(<<IdColumn, TextColumn>>, <<>>),
   Schema(<<IdColumn, TextColumn>>, <<ForeignKey("value", "parent")>>),
   Schema(<<IdColumn, TextColumn>>, <<ForeignKeyFromArray>>),
   Schema(<<IdColumn, TextColumn>>, <<ForeignKeyToArray>>),
   Schema(<<IdColumn, TextColumn>>, <<ForeignKeyToTwoTables>>),
   Schema(<<IdColumn, Value2Column(FALSE, Bool(TRUE))>>, <<>>),
   With(Schema(<<IdColumn, TextColumn>>, <<>>), "indices", Indices("value")),
   With(Schema(<<IdColumn, TextColumn>>, <<>>), "indices", Indices("missing")),
   With(Schema(<<IdColumn, With(TextColumn, "index", TRUE)>>, <<>>),
        "indices", Indices("id"))}
  \cup {Schema(<<IdColumn, column>>, <<>>) : column \in FlaggedColumns}

InitSchema ==
  /\ tables = [name \in {TableName, BackupTableName} |-> NoTable]
  /\ inTransaction = FALSE
  /\ foreignKeysOn = FALSE
  /\ last = NoCall
  /\ st = Idle
  /\ rt = Idle
  /\ up = Idle
  /\ cq = Idle

NextSchema ==
  \/ \E schema \in DeclaredSchemas : CreateTable(schema)
  \/ \E schema \in DeclaredSchemas : CreateTableIfNotExists(schema)
  \/ \E schema \in DeclaredSchemas : CreateOrUpdateTable(schema)

SpecSchema == InitSchema /\ [][NextSchema]_vars

-----------------------------------------------------------------------------
(* The caller's schema object, on SpecSchema.                              *)

SchemaCalls == {"createTable", "createTableIfNotExists", "createOrUpdateTable"}

\* C28: createTable, createTableIfNotExists and createOrUpdateTable leave the
\* caller's schema object unchanged: after the call the schema holds the
\* columns, foreign keys and indices it held before it, also when it declares
\* `indices` and a column is flagged index: true.
C28_SchemaUnchanged == last.op \in SchemaCalls => last.schemaAfter = last.schema

\* The schema is unchanged when it declares no indices or flags no column.
C28_SchemaUnchangedWithoutBoth ==
  (/\ last.op \in SchemaCalls
   /\ \/ ~HasOwn(last.schema, "indices")
      \/ \A i \in 1..Len(last.schema.columns) : ~HasOwn(last.schema.columns[i], "index"))
    => last.schemaAfter = last.schema

\* A call on a schema with indices {byValue} and a flagged column `value`
\* left the schema with an index `value` as well.
C28_ChangedWitness ==
  /\ last.op \in SchemaCalls
  /\ HasOwn(last.schema, "indices")
  /\ Len(last.schema.indices) = 1
  /\ Len(last.schemaAfter.indices) = 2
  /\ last.schemaAfter.indices[2] = <<"value", [columns |-> <<"value">>]>>

-----------------------------------------------------------------------------
(* Convergence of reconciliation, on SpecSchema.                           *)

\* The last call created or reconciled the table with its schema.
Established ==
  /\ last.op \in {"createTable", "createOrUpdateTable"}
  /\ last.status = "resolved"

\* The step calls createOrUpdateTable or createTableIfNotExists with the
\* schema of the call before it.
AgainStep ==
  /\ last'.op \in {"createOrUpdateTable", "createTableIfNotExists"}
  /\ last'.schema = last.schema

ConvergedStep ==
  /\ last'.status = "resolved"
  /\ last'.value = (IF last'.op = "createOrUpdateTable"
                    THEN {<<"wasCreated", FALSE>>, <<"wasUpdated", FALSE>>}
                    ELSE {<<"wasCreated", FALSE>>})
  /\ tables' = tables

UsesArrays(schema) ==
  \E i \in 1..Len(schema.foreignKeys) :
    \/ HasOwn(schema.foreignKeys[i], "fromIsArray")
    \/ HasOwn(schema.foreignKeys[i].references, "fieldIsArray")

\* C30: reconciliation converges: after createTable or createOrUpdateTable
\* has succeeded for a schema, an immediately following createOrUpdateTable
\* with the same schema resolves {wasCreated: false, wasUpdated: false} and
\* createTableIfNotExists resolves {wasCreated: false}, for every schema,
\* those with foreign keys given as arrays and with column flags included.
C30_Converges == [][(Established /\ AgainStep) => ConvergedStep]_vars

\* It converges for the schemas whose foreign keys name their columns with
\* strings.
C30_ConvergesWithoutArrays ==
  [][(Established /\ AgainStep /\ ~UsesArrays(last.schema)) => ConvergedStep]_vars

\* createOrUpdateTable on a table just created from a schema whose foreign
\* key has from: ['value'] failed with a TypeError, and one whose foreign key
\* references ['id'] migrated the table again.
C30_FromArrayWitness ==
  /\ last.op = "createOrUpdateTable"
  /\ PresentEqual
  /\ last.schema.foreignKeys # <<>>
  /\ HasOwn(last.schema.foreignKeys[1], "fromIsArray")
  /\ RejectedWith("TypeError")

C30_ToArrayWitness ==
  /\ last.op = "createOrUpdateTable"
  /\ PresentEqual
  /\ last.schema.foreignKeys # <<>>
  /\ HasOwn(last.schema.foreignKeys[1].references, "fieldIsArray")
  /\ ResolvedWith({<<"wasCreated", FALSE>>, <<"wasUpdated", TRUE>>})

-----------------------------------------------------------------------------
(* SpecSyntax: a caller that either builds queries on one BuildQuery or    *)
(* calls createTable with the declared schemas of SpecSchema.              *)

InitSyntax ==
  /\ tables = [name \in {TableName, BackupTableName} |-> NoTable]
  /\ inTransaction = FALSE
  /\ foreignKeysOn = FALSE
  /\ last = NoCall
  /\ st = Idle
  /\ rt = Idle
  /\ up = Idle
  /\ cq \in {Idle, NewBuilder}

TableCreate == cq.pc = "idle" /\ \E schema \in DeclaredSchemas : CreateTable(schema)

BuilderCall == cq.pc = "query" /\ NextQuery

NextSyntax ==
  \/ BuilderCall
  \/ TableCreate

SpecSyntax == InitSyntax /\ [][NextSyntax]_vars

\* The last call on the builder was a terminal operation that failed.
TerminalCallFailed ==
  /\ cq.pc = "query"
  /\ cq.call.op \in TerminalOperations
  /\ cq.call.status \in {"thrown", "rejected"}

\* What the failures of a terminal operation say: the filter, the clauses
\* of the builder, or a value that cannot be bound.
FilterErrors == {"Invalid syntax"}

ClauseErrors ==
  {"Invalid " \o op \o " with " \o clause :
     op \in {"remove", "count", "update"},
     clause \in {"groupBy", "limit", "offset", "orderBy"}}

BindErrors == {"Invalid type", "TypeError"}

\* createTable failed in _createTableSql.
CreateTableFailed == last.op = "createTable" /\ last.error \in SyntaxErrors

NothingSent ==
  /\ last.op = "createTable" => last.statements = <<>> /\ DatabaseUnchanged
  /\ cq.pc = "query" =>
       /\ cq.call.sql = ""
       /\ cq.call.params = <<>>
       /\ tables = [name \in {TableName, BackupTableName} |-> NoTable]
       /\ last = NoCall

\* C26: a syntax error is raised before the database is touched: when a
\* terminal query operation fails because of its filter, a forbidden clause
\* or a value that cannot be bound, and when createTable fails because of
\* the type of a default value, a foreign-key description or an unknown index
\* column, no statement is sent and the database is unchanged.
C26_SyntaxErrorsBeforeDatabase ==
  /\ TerminalCallFailed =>
       /\ cq.call.error \in FilterErrors \cup ClauseErrors \cup BindErrors
       /\ NothingSent
  /\ CreateTableFailed => last.status = "rejected" /\ NothingSent
  /\ (last.op = "createTable" /\ last.status = "rejected" /\ ~CreateTableFailed)
       => last.error = "SqlError" /\ last.statements = <<"CREATE TABLE">>

\* createTable with an index on a column the schema does not have was
\* rejected on a database without the table.
C26_Witness ==
  /\ CreateTableFailed
  /\ last.error = "Unknown field"
  /\ HasOwn(last.schema, "indices")
  /\ Absent
  /\ ~TableAfter.exists

C26_DefaultValueWitness ==
  CreateTableFailed /\ last.error = "Invalid type for default value"

C26_ForeignKeyWitness ==
  CreateTableFailed /\ last.error = "Invalid foreign key description"

C26_FilterWitness == TerminalCallFailed /\ cq.call.error \in FilterErrors

C26_ClauseWitness ==
  TerminalCallFailed /\ cq.call.op = "count" /\ cq.call.error = "Invalid count with limit"

C26_BindWitness ==
  TerminalCallFailed /\ cq.call.op = "update" /\ cq.call.error \in BindErrors

=============================================================================
